---- MODULE Spec2Model ----
(***************************************************************************)
(* Entry-resolution state machine of the Finman expense bot.               *)
(*                                                                         *)
(* Python values are tagged records (None, Str, Num); a string is a        *)
(* sequence of atoms (words or single characters), so that concatenation,  *)
(* strip and comparison are computed, not assumed.  Confidences are held   *)
(* in percent (0.70 is 70).                                                *)
(***************************************************************************)
EXTENDS Integers, Sequences, FiniteSets, TLC

(* ------------------------------ bounds -------------------------------- *)
\* Number of inbound updates handled in one behaviour.
MaxTurns == 3

(* ------------------------- Python value model ------------------------- *)
None == [t |-> "none"]
Str(s) == [t |-> "str", s |-> s]
Num(n) == [t |-> "num", n |-> n]
Bool(b) == [t |-> "bool", b |-> b]

IsNone(v) == v.t = "none"

\* Python truthiness: None, "" and 0 are falsy.
Truthy(v) ==
  CASE v.t = "none" -> FALSE
    [] v.t = "str" -> v.s # << >>
    [] v.t = "num" -> v.n # 0
    [] v.t = "bool" -> v.b

\* Python `a or b`.
Or(a, b) == IF Truthy(a) THEN a ELSE b

SP == " "

RECURSIVE LStrip(_)
LStrip(s) == IF s # << >> /\ Head(s) = SP THEN LStrip(Tail(s)) ELSE s

RECURSIVE RStrip(_)
RStrip(s) ==
  IF s # << >> /\ s[Len(s)] = SP THEN RStrip(SubSeq(s, 1, Len(s) - 1)) ELSE s

\* str.strip()
Strip(s) == RStrip(LStrip(s))

\* str.lower() / str.capitalize() on the atoms the model uses; an atom is a
\* whole word, so capitalize acts on the first atom and lowers the rest.
LowerAtom(a) ==
  CASE a \in {"YES", "Yes", "yes"} -> "yes"
    [] a \in {"Y", "y"} -> "y"
    [] a \in {"NO", "no"} -> "no"
    [] a \in {"YEAH", "Yeah", "yeah"} -> "yeah"
    [] a \in {"CORRECT", "Correct", "correct"} -> "correct"
    [] a \in {"Food", "food", "FOOD"} -> "food"
    [] a \in {"Travel", "travel"} -> "travel"
    [] a \in {"Others", "others"} -> "others"
    [] a \in {"Entertainment", "entertainment"} -> "entertainment"
    [] a \in {"Name", "name", "NAME"} -> "name"
    [] a \in {"Category", "category"} -> "category"
    [] a \in {"PRICE", "Price", "price"} -> "price"
    [] a \in {"All", "all"} -> "all"
    [] a \in {"Snacks", "snacks"} -> "snacks"
    [] a \in {"Lunch", "lunch"} -> "lunch"
    [] a \in {"Rs", "RS", "rs"} -> "rs"
    [] OTHER -> a

CapAtom(a) ==
  CASE LowerAtom(a) = "food" -> "Food"
    [] LowerAtom(a) = "travel" -> "Travel"
    [] LowerAtom(a) = "others" -> "Others"
    [] LowerAtom(a) = "entertainment" -> "Entertainment"
    [] LowerAtom(a) = "snacks" -> "Snacks"
    [] LowerAtom(a) = "lunch" -> "Lunch"
    [] LowerAtom(a) = "name" -> "Name"
    [] LowerAtom(a) = "yes" -> "Yes"
    [] OTHER -> a

Lower(s) == [i \in 1..Len(s) |-> LowerAtom(s[i])]

\* Variant that leaves the letter case alone.
Capitalize_asis(s) == s

Capitalize(s) ==
  [i \in 1..Len(s) |-> IF i = 1 THEN CapAtom(s[i]) ELSE LowerAtom(s[i])]

(* --------------------------- program constants ------------------------ *)
\* CONF_THRESH = 0.70, in percent.
CONF_THRESH == 70

ALLOWED_CATEGORIES ==
  {<<"Food">>, <<"Entertainment">>, <<"Travel">>, <<"Others">>}

(* ------------------------- extractor outputs -------------------------- *)
\* What one graph.invoke hands back as message text:
\*   "error"   chat_node caught an exception of llm.invoke ("Error: ...")
\*   "garbage" text that json.loads rejects, also after the quote fix
\*   "empty"   the JSON object {} (parses, but is falsy)
\*   "list"    JSON that parses to a truthy value that is not an object
\*   "json"    a JSON object, held in map (a missing key reads as None)
RawMap(n, nc, c, cc, p, pc, inc) ==
  [Name |-> n, name_confidence |-> nc, category |-> c,
   category_confidence |-> cc, price |-> p, price_confidence |-> pc,
   isIncome |-> inc]

EmptyMap == RawMap(None, None, None, None, None, None, None)

ErrOut == [kind |-> "error", map |-> EmptyMap]
GarbageOut == [kind |-> "garbage", map |-> EmptyMap]
EmptyOut == [kind |-> "empty", map |-> EmptyMap]
ListOut == [kind |-> "list", map |-> EmptyMap]
Json(m) == [kind |-> "json", map |-> m]

(* ---------------------------- number parsing -------------------------- *)
Digits == {"0", "1", "2", "3", "4", "5", "6", "7", "8", "9"}

DigitVal(a) ==
  CASE a = "0" -> 0 [] a = "1" -> 1 [] a = "2" -> 2 [] a = "3" -> 3
    [] a = "4" -> 4 [] a = "5" -> 5 [] a = "6" -> 6 [] a = "7" -> 7
    [] a = "8" -> 8 [] a = "9" -> 9

\* int() accepts a non-empty run of digits (surrounding blanks are stripped).
IsIntText(s) ==
  LET b == Strip(s) IN b # << >> /\ \A i \in 1..Len(b) : b[i] \in Digits

RECURSIVE IntOfDigits(_)
IntOfDigits(b) ==
  IF b = << >> THEN 0
  ELSE 10 * IntOfDigits(SubSeq(b, 1, Len(b) - 1)) + DigitVal(b[Len(b)])

IntOf(s) == IntOfDigits(Strip(s))

\* float(v or 0.0) of a confidence value; FloatRaises tells when float() raises.
FloatRaises(v) == v.t = "str" /\ Truthy(v) /\ ~IsIntText(v.s)

FloatOr0(v) ==
  CASE ~Truthy(v) -> 0
    [] v.t = "num" -> v.n
    [] v.t = "str" -> IntOf(v.s)

(* --------------------------- Field Normalizer ------------------------- *)
\* _try_fix_and_load_json followed by the `if parsed:` test.
ParsedTruthy(o) == o.kind \in {"json", "list"}

\* _normalize_confidence_parsed raises on a non-dict (no .get) and on a
\* confidence that float() rejects.
NormalizeRaises(o) ==
  \/ o.kind = "list"
  \/ /\ o.kind = "json"
     /\ \/ FloatRaises(o.map.name_confidence)
        \/ FloatRaises(o.map.category_confidence)
        \/ FloatRaises(o.map.price_confidence)

CoerceCategory(cat) ==
  IF IsNone(cat) THEN None
  ELSE IF cat.t = "str" /\ Capitalize(Strip(cat.s)) \in ALLOWED_CATEGORIES
       THEN Str(Capitalize(Strip(cat.s)))
       ELSE Str(<<"Others">>)

\* The candidate keeps Name, category, price and the three confidences; the
\* isIncome key of the raw map is not copied (raw_model is bookkeeping only).
_normalize_confidence_parsed(m) ==
  [Name |-> m.Name,
   name_confidence |-> FloatOr0(m.name_confidence),
   category |-> CoerceCategory(m.category),
   category_confidence |-> FloatOr0(m.category_confidence),
   price |-> m.price,
   price_confidence |-> FloatOr0(m.price_confidence)]

FallbackCandidate ==
  [Name |-> None, name_confidence |-> 0, category |-> None,
   category_confidence |-> 0, price |-> None, price_confidence |-> 0]

(* ------------------------------ Extractor ----------------------------- *)
\* Variant that looks at the price confidence alone.
AnyConfident_priceonly(c) == c.price_confidence >= CONF_THRESH

AnyConfident(c) ==
  \/ c.name_confidence >= CONF_THRESH
  \/ c.category_confidence >= CONF_THRESH
  \/ c.price_confidence >= CONF_THRESH

\* categorization_with_confidence on the outputs o1, o2 of the first and the
\* force-guess invocation: raised, the candidate, and the invocations made.
SecondAttempt(o2) ==
  IF ParsedTruthy(o2)
  THEN IF NormalizeRaises(o2)
       THEN [raised |-> TRUE, parsed |-> FallbackCandidate, invocations |-> 2]
       ELSE [raised |-> FALSE, parsed |-> _normalize_confidence_parsed(o2.map),
             invocations |-> 2]
  ELSE [raised |-> FALSE, parsed |-> FallbackCandidate, invocations |-> 2]

categorization_with_confidence(o1, o2) ==
  IF ParsedTruthy(o1)
  THEN IF NormalizeRaises(o1)
       THEN [raised |-> TRUE, parsed |-> FallbackCandidate, invocations |-> 1]
       ELSE IF AnyConfident(_normalize_confidence_parsed(o1.map))
            THEN [raised |-> FALSE,
                  parsed |-> _normalize_confidence_parsed(o1.map),
                  invocations |-> 1]
            ELSE SecondAttempt(o2)
  ELSE SecondAttempt(o2)

(* ------------------------- Clarification Policy ----------------------- *)
\* parsed.get(key, 0.0): a key the candidate lacks reads as zero.
ConfOf(parsed, key) == IF key \in DOMAIN parsed THEN parsed[key] ELSE 0

IssuesBelow(parsed, thresh) ==
  (IF ConfOf(parsed, "name_confidence") < thresh THEN <<"name">> ELSE << >>)
  \o (IF ConfOf(parsed, "category_confidence") < thresh
      THEN <<"category">> ELSE << >>)
  \o (IF ConfOf(parsed, "price_confidence") < thresh
      THEN <<"price">> ELSE << >>)

\* Variant without the confident-price shortcut.
needs_clarification_allfields(parsed, thresh) ==
  [ask |-> Len(IssuesBelow(parsed, thresh)) > 0,
   issues |-> IssuesBelow(parsed, thresh)]

\* Variant that reports the price alone.
needs_clarification_priceonly(parsed, thresh) ==
  IF ConfOf(parsed, "price_confidence") >= thresh
  THEN [ask |-> FALSE, issues |-> << >>]
  ELSE [ask |-> TRUE, issues |-> <<"price">>]

needs_clarification(parsed, thresh) ==
  IF ConfOf(parsed, "price_confidence") >= thresh
  THEN [ask |-> FALSE, issues |-> << >>]
  ELSE [ask |-> Len(IssuesBelow(parsed, thresh)) > 0,
        issues |-> IssuesBelow(parsed, thresh)]

\* Variant that has no tailored prompts.
_start_verif_question_issues_combined(issues) ==
  IF issues = << >>
  THEN [kind |-> "confirm", fields |-> << >>]
  ELSE [kind |-> "combined", fields |-> issues]

\* The prompt, by its kind and the fields it names.
_start_verif_question_issues(issues) ==
  CASE issues = << >> -> [kind |-> "confirm", fields |-> << >>]
    [] issues = <<"price">> -> [kind |-> "ask_price", fields |-> << >>]
    [] issues = <<"name">> -> [kind |-> "ask_name", fields |-> << >>]
    [] issues = <<"category">> -> [kind |-> "ask_category", fields |-> << >>]
    [] OTHER -> [kind |-> "combined", fields |-> issues]

\* Replies other than questions carry no fields.
Reply(k) == [kind |-> k, fields |-> << >>]

QuestionKinds ==
  {"confirm", "ask_price", "ask_name", "ask_category", "combined"}

(* ------------------------------ Entry Store --------------------------- *)
\* Telegram ids and canonical phones of the model: T1 is the sender, P1 the
\* sender's phone, P2 the phone of another account.
T1 == "T1"
T2 == "T2"
P1 == <<"P1">>
P2 == <<"P2">>
Phones == {P1, P2}

NoDoc == [present |-> FALSE]
\* A Users document: its number is the key it is stored under; has_username / has_phone_number tell whether the
\* telegram_username / phone_number field exists in the document.
UserDoc(tid, hasUsername, hasPhoneNumber) ==
  [present |-> TRUE, telegram_id |-> tid, has_username |-> hasUsername,
   has_phone_number |-> hasPhoneNumber, password_hash |-> "h0"]

\* Price normalisation of _store_query_for_user: failed is the caught
\* exception of int(), which leaves price_num None.
CurrencyMarks == {"₹", "rs", ",", "$"}

IsMark(a) == a \in CurrencyMarks

StripMarks(s) == SelectSeq(Lower(Strip(s)), LAMBDA a : ~IsMark(a))

StorePriceNum(price_raw) ==
  CASE price_raw.t = "none" -> None
    [] price_raw.t = "num" -> price_raw
    [] price_raw.t = "str" ->
         IF IsIntText(StripMarks(price_raw.s))
         THEN Num(IntOf(StripMarks(price_raw.s)))
         ELSE None

\* The phones _store_query_for_user may resolve for telegram_id when no
\* session phone is passed: the user linked to the id, else any user that has
\* a telegram_username field (find_one returns one of them); None if no user
\* is found or the user found has no phone_number field.
PhoneOfDoc(users, ph) ==
  IF users[ph].has_phone_number THEN Str(ph) ELSE None

ResolvePhones(users, tg) ==
  LET byId == {ph \in Phones : users[ph].present /\ users[ph].telegram_id = tg}
      byName == {ph \in Phones : users[ph].present /\ users[ph].has_username}
  IN IF byId # {} THEN {PhoneOfDoc(users, ph) : ph \in byId}
     ELSE IF byName # {} THEN {PhoneOfDoc(users, ph) : ph \in byName}
     ELSE {None}

\* _store_query_for_user with the phone it resolved: whether insert_one was
\* called, and the document handed to it.
QueryDoc(phone, tg, parsed) ==
  [coll |-> "Queries",
   phone |-> phone,
   price |-> Or(StorePriceNum(parsed.price), Num(0)),
   name |-> Or(parsed.Name, Str(<< >>)),
   category |-> Or(parsed.category, Str(<<"uncategorized">>)),
   isIncome |-> "false",
   telegram_id |-> tg]

_store_query_for_user_twice(phone, tg, parsed) ==
  IF ~Truthy(phone)
  THEN << >>
  ELSE <<QueryDoc(phone, tg, parsed), QueryDoc(phone, tg, parsed)>>

_store_query_for_user(phone, tg, parsed) ==
  IF ~Truthy(phone)
  THEN << >>
  ELSE <<QueryDoc(phone, tg, parsed)>>

\* MainPriceNum with amounts kept in minor units.
MainPriceNum_paise(price_raw) ==
  IF price_raw.t = "num" THEN Num(price_raw.n * 100) ELSE Num(0)

\* _normalize_parsed of main.py applied to a candidate (its keys lowered are
\* name, category, price and the confidences).
MainPriceNum(price_raw) ==
  CASE price_raw.t = "num" -> price_raw
    [] price_raw.t = "str" ->
         LET tmp == Strip(SelectSeq(Strip(price_raw.s),
                                    LAMBDA a : a \notin {"₹", "$", "rs"}))
         IN IF IsIntText(tmp) THEN Num(IntOf(tmp)) ELSE Num(0)
    [] OTHER -> Num(0)

_normalize_parsed(parsed) ==
  [name |-> Or(parsed.Name, None),
   category |-> Or(parsed.category, Str(<<"Unknown">>)),
   price |-> MainPriceNum(Or(parsed.price, Num(0)))]

\* add_query_for_user as message_handler calls it: the document handed to
\* db.queries.insert_one.
add_query_for_user(phone, users, parsed) ==
  [coll |-> "queries",
   phone |-> Str(phone),
   price |-> Or(_normalize_parsed(parsed).price, Num(0)),
   name |-> Or(_normalize_parsed(parsed).name, Str(<<"Unknown">>)),
   category |-> Or(_normalize_parsed(parsed).category, Str(<<"Unknown">>)),
   isIncome |-> "absent",
   telegram_id |-> users[phone].telegram_id]

(* ----------------------- Pending Resolution State --------------------- *)
NoPending == [stage |-> "none"]

\* chat_data["pending"]; substage "absent" and choice None are the keys the
\* dict does not hold yet.
\* Variant that opens the verify protocol instead of a clarification.
NewPending_verify(parsed, image, text, issues) ==
  [stage |-> "verify_flow", substage |-> "absent", parsed |-> parsed,
   image_b64 |-> image, user_text |-> text, issues |-> issues,
   choice |-> None]

NewPending_noimage(parsed, image, text, issues) ==
  [stage |-> "await_clarify", substage |-> "absent", parsed |-> parsed,
   image_b64 |-> None, user_text |-> text, issues |-> issues,
   choice |-> None]

NewPending(parsed, image, text, issues) ==
  [stage |-> "await_clarify", substage |-> "absent", parsed |-> parsed,
   image_b64 |-> image, user_text |-> text, issues |-> issues,
   choice |-> None]

HasPending(p) == p.stage # "none"

\* One categorization_with_confidence call: its arguments and its outcome
\* (llm_failed: the invocation that decided the outcome was an llm.invoke
\* exception caught by chat_node).
Call(text, image, ex) ==
  [text |-> text, image |-> image, raised |-> ex.raised, parsed |-> ex.parsed,
   llm_failed |-> ex.llm_failed]

\* One insert_one call: the document and whether the store accepted it.
Attempts(docs, ok) == [i \in 1..Len(docs) |-> [doc |-> docs[i], ok |-> ok]]

\* What a handler leaves behind: the pending state, the replies sent, the
\* extractor calls and insert_one calls made, and whether it raised.
Outcome(pend, replies, calls, attempts, raised) ==
  [pending |-> pend, replies |-> replies, calls |-> calls,
   attempts |-> attempts, raised |-> raised]

\* Variant that accepts the word yes alone.
YesTokens_yesonly == {<<"yes">>}

\* Variant that also takes no for a confirmation.
YesTokens_withno == {<<"yes">>, <<"y">>, <<"yeah">>, <<"correct">>, <<"no">>}

YesTokens == {<<"yes">>, <<"y">>, <<"yeah">>, <<"correct">>}
\* Variant without the choice all.
FieldChoices_noall == {<<"name">>, <<"category">>, <<"price">>}

FieldChoices == {<<"name">>, <<"category">>, <<"price">>, <<"all">>}

\* _try_fix_and_load_json of a user reply: the atom JSON_OBJ stands for the
\* text of a JSON object, JSON_LIST for the text of a JSON array, a run of
\* digits is a JSON number; everything else does not parse.
UserObject ==
  RawMap(Str(<<"Tea">>), Num(90), Str(<<"food">>), Num(90), Num(15), Num(90),
         None)

UserJson(s) ==
  CASE s = <<"JSON_OBJ">> -> Json(UserObject)
    [] s = <<"JSON_LIST">> -> ListOut
    [] IsIntText(s) -> IF IntOf(s) = 0 THEN EmptyOut ELSE ListOut
    [] OTHER -> GarbageOut

(* ------------------------------ handle_text --------------------------- *)
\* combined_text = (pending.get("user_text") or "") + " " + user_text
CombinedText_nospace(pending_text, user_text) == pending_text \o user_text

CombinedText(pending_text, user_text) == pending_text \o <<SP>> \o user_text

\* pending.update({...}): the keys named are replaced, the others are kept.
UpdatePending_stale(pend, parsed, issues, text) ==
  [pend EXCEPT !.stage = "await_clarify", !.issues = issues,
               !.user_text = text]

UpdatePending(pend, parsed, issues, text) ==
  [pend EXCEPT !.stage = "await_clarify", !.parsed = parsed,
               !.issues = issues, !.user_text = text]

\* The await_clarify branch.
ClarifyReply(pend, tg, user_text, ex, ph, ok) ==
  LET combined_text == CombinedText(pend.user_text, user_text)
      call == Call(combined_text, pend.image_b64, ex)
      nc == needs_clarification(ex.parsed, CONF_THRESH)
      docs == _store_query_for_user(ph, tg, ex.parsed)
  IN IF ex.raised
     THEN Outcome(pend, << >>, <<call>>, << >>, TRUE)
     ELSE IF ~nc.ask
     THEN Outcome(NoPending,
                  <<Reply(IF docs # << >> /\ ok THEN "saved"
                          ELSE "confirmed_not_saved")>>,
                  <<call>>, Attempts(docs, ok), FALSE)
     ELSE Outcome(UpdatePending(pend, ex.parsed, nc.issues, combined_text),
                  <<_start_verif_question_issues(nc.issues)>>,
                  <<call>>, << >>, FALSE)

\* The branch taken with no pending flow: a new text-only submission.
NewTextSubmission(pend, tg, user_text, ex, ph, ok) ==
  LET call == Call(user_text, None, ex)
      nc == needs_clarification(ex.parsed, CONF_THRESH)
      docs == _store_query_for_user(ph, tg, ex.parsed)
  IN IF ex.raised
     THEN Outcome(pend, << >>, <<call>>, << >>, TRUE)
     ELSE IF ~nc.ask
     THEN Outcome(pend,
                  <<Reply(IF docs # << >> /\ ok THEN "saved"
                          ELSE "not_saved")>>,
                  <<call>>, Attempts(docs, ok), FALSE)
     ELSE Outcome(NewPending(ex.parsed, None, user_text, nc.issues),
                  <<_start_verif_question_issues(nc.issues)>>,
                  <<call>>, << >>, FALSE)

\* The verify_flow branch; a substage it does not know falls through to a
\* new submission.
VerifyReply(pend, tg, user_text, ex, ph, ok) ==
  LET stage == IF pend.substage = "absent" THEN "await_verify_response"
               ELSE pend.substage
      docs == _store_query_for_user(ph, tg, pend.parsed)
      choice == Lower(Strip(user_text))
      cat == Capitalize(Strip(user_text))
      parsed_try == UserJson(user_text)
      corrected ==
        CASE pend.choice = Str(<<"name">>) ->
               [pend.parsed EXCEPT !.Name = Str(Strip(user_text))]
          [] pend.choice = Str(<<"category">>) ->
               [pend.parsed EXCEPT !.category =
                  IF cat \in ALLOWED_CATEGORIES THEN Str(cat)
                  ELSE Str(<<"Others">>)]
          [] pend.choice = Str(<<"price">>) ->
               [pend.parsed EXCEPT !.price = Str(Strip(user_text))]
          [] pend.choice = Str(<<"all">>) ->
               _normalize_confidence_parsed(parsed_try.map)
          [] OTHER -> pend.parsed
  IN CASE stage = "await_verify_response" ->
            IF Lower(user_text) \in YesTokens
            THEN Outcome(NoPending,
                         <<Reply(IF docs # << >> /\ ok THEN "saved"
                                 ELSE "confirmed_not_saved")>>,
                         << >>, Attempts(docs, ok), FALSE)
            ELSE Outcome([pend EXCEPT !.substage = "choose_field"],
                         <<Reply("which_field")>>, << >>, << >>, FALSE)
       [] stage = "choose_field" ->
            IF choice \notin FieldChoices
            THEN Outcome(pend, <<Reply("choose_again")>>, << >>, << >>, FALSE)
            ELSE Outcome([pend EXCEPT !.substage = "await_correction",
                                      !.choice = Str(choice)],
                         <<Reply("send_value")>>, << >>, << >>, FALSE)
       [] stage = "await_correction" ->
            IF pend.choice = Str(<<"all">>) /\ ~ParsedTruthy(parsed_try)
            THEN Outcome(pend, <<Reply("bad_format")>>, << >>, << >>, FALSE)
            ELSE IF pend.choice = Str(<<"all">>) /\ NormalizeRaises(parsed_try)
            THEN Outcome(pend, << >>, << >>, << >>, TRUE)
            ELSE Outcome([pend EXCEPT !.parsed = corrected,
                                      !.substage = "await_verify_response"],
                         <<Reply("confirm_corrected")>>, << >>, << >>, FALSE)
       [] OTHER -> NewTextSubmission(pend, tg, user_text, ex, ph, ok)

\* handle_text(update, context) for the message text raw_text of sender tg:
\* ex is the outcome of the extractor call of this turn, ph the phone the
\* store helper resolves, ok whether insert_one succeeds.
handle_text(pend, tg, raw_text, ex, ph, ok) ==
  LET user_text == Strip(raw_text)
  IN IF user_text = << >>
     THEN Outcome(pend, << >>, << >>, << >>, FALSE)
     ELSE IF pend.stage = "await_clarify"
     THEN ClarifyReply(pend, tg, user_text, ex, ph, ok)
     ELSE IF pend.stage = "verify_flow"
     THEN VerifyReply(pend, tg, user_text, ex, ph, ok)
     ELSE NewTextSubmission(pend, tg, user_text, ex, ph, ok)

(* ------------------------------ handle_image -------------------------- *)
\* handle_image(update, context): hasPhoto tells whether the update carries a
\* photo, dlOK whether the download succeeds, image is the downloaded image.
handle_image(pend, tg, hasPhoto, raw_caption, image, dlOK, ex, ph, ok) ==
  LET caption == Strip(raw_caption)
      call == Call(caption, Str(image), ex)
      nc == needs_clarification(ex.parsed, CONF_THRESH)
      docs == _store_query_for_user(ph, tg, ex.parsed)
  IN IF ~hasPhoto
     THEN Outcome(pend, <<Reply("no_image")>>, << >>, << >>, FALSE)
     ELSE IF ~dlOK
     THEN Outcome(pend, <<Reply("image_failed")>>, << >>, << >>, FALSE)
     ELSE IF ex.raised
     THEN Outcome(pend, <<Reply("went_wrong")>>, <<call>>, << >>, FALSE)
     ELSE IF ~nc.ask
     THEN Outcome(pend,
                  <<Reply(IF docs # << >> /\ ok THEN "image_saved"
                          ELSE "not_saved")>>,
                  <<call>>, Attempts(docs, ok), FALSE)
     ELSE Outcome(NewPending(ex.parsed, Str(image), caption, nc.issues),
                  <<_start_verif_question_issues(nc.issues)>>,
                  <<call>>, << >>, FALSE)

(* ------------------------ message_handler (main.py) ------------------- *)
\* The insert of add_query_for_user with the handler's try/except around it.
MainStore(phone, users, parsed, okA, savedKind, failedKind) ==
  Outcome(NoPending,
          <<Reply(IF okA THEN savedKind ELSE failedKind)>>, << >>,
          Attempts(<<add_query_for_user(phone, users, parsed)>>, okA), FALSE)

\* The tail of both branches: a pending state that was there before the
\* delegated call and is gone after it is stored again from prior_pending.
AfterDelegate(pend, h, phone, users, okA, savedKind, failedKind) ==
  IF h.raised \/ ~(HasPending(pend) /\ ~HasPending(h.pending))
  THEN h
  ELSE LET m == MainStore(phone, users, pend.parsed, okA, savedKind, failedKind)
       IN Outcome(h.pending, h.replies \o m.replies, h.calls,
                  h.attempts \o m.attempts, FALSE)

\* Text branch; phone is the number of the Users document linked to tg.
message_handler_text(pend, users, tg, phone, raw_text, ex, ex2, ph, okA, okB) ==
  LET text == Strip(raw_text)
      call == Call(text, None, ex)
      nc == needs_clarification(ex.parsed, CONF_THRESH)
      m == MainStore(phone, users, ex.parsed, okA, "saved_id", "failed_store")
      h0 == handle_text(pend, tg, raw_text, ex2, ph, okB)
      h1 == handle_text(pend, tg, raw_text, ex, ph, okB)
  IN IF ~HasPending(pend)
     THEN IF ex.raised
          THEN Outcome(pend, << >>, <<call>>, << >>, TRUE)
          ELSE IF ~nc.ask
          THEN Outcome(pend, m.replies, <<call>>, m.attempts, FALSE)
          ELSE Outcome(h0.pending, h0.replies, <<call>> \o h0.calls,
                       h0.attempts, h0.raised)
     ELSE AfterDelegate(pend, h1, phone, users, okA,
                        "saved_confirmed", "failed_store_confirmed")

\* Photo branch; dlOK is the download message_handler makes when there is no
\* pending state (with one, the only download is handle_image's), dlOK2 the
\* download handle_image makes again after message_handler's extraction asked.
message_handler_photo(pend, users, tg, phone, raw_caption, image, dlOK, dlOK2, ex, ex2, ph, okA, okB) ==
  LET caption == Strip(raw_caption)
      call == Call(caption, Str(image), ex)
      nc == needs_clarification(ex.parsed, CONF_THRESH)
      m == MainStore(phone, users, ex.parsed, okA, "saved_id", "failed_store")
      h0 == handle_image(pend, tg, TRUE, raw_caption, image, dlOK2,
                         ex2, ph, okB)
      h1 == handle_image(pend, tg, TRUE, raw_caption, image, dlOK,
                         ex, ph, okB)
  IN IF ~HasPending(pend)
     THEN IF ~dlOK
          THEN Outcome(pend, <<Reply("download_failed")>>, << >>, << >>, FALSE)
          ELSE IF ex.raised
          THEN Outcome(pend, << >>, <<call>>, << >>, TRUE)
          ELSE IF ~nc.ask
          THEN Outcome(pend, m.replies, <<call>>, m.attempts, FALSE)
          ELSE Outcome(h0.pending, h0.replies, <<call>> \o h0.calls,
                       h0.attempts, h0.raised)
     ELSE AfterDelegate(pend, h1, phone, users, okA,
                        "saved_confirmed", "failed_store_confirmed")

\* The checks message_handler makes before it looks at the message.
LinkedPhones(users, tg) ==
  {ph \in Phones : users[ph].present /\ users[ph].telegram_id = tg}

(* ------------------------------- state -------------------------------- *)
VARIABLES
  pending,              \* chat_data["pending"] of the conversation
  Queries,              \* documents accepted by insert_one, in order
  users,                \* the Users collection, by number
  authenticated_users,  \* main.py's in-memory map, as the set of its keys
  turn,                 \* the last update handled and what it caused
  hist,                 \* texts the pending state was built from, in order
  img0,                 \* image of the submission that created the state
  conv,                 \* state of the auth ConversationHandler for the sender
  session,              \* the sender's entry of bot/sessions.py
  intent,               \* user_data["intent"]
  turns,                \* updates handled so far
  tasks,                \* handler coroutines suspended at an extractor call
  UsersDocs,            \* documents of db.Users as create_user leaves them
  number_unique,        \* the unique index on Users.number exists
  _sessions,            \* bot/sessions.py's store, by telegram id
  clock                 \* time.time(), in hours

vars ==
  <<pending, Queries, users, authenticated_users, turn, hist, img0, conv,
    session, intent, turns, tasks, UsersDocs, number_unique, _sessions,
    clock>>

dbVars == <<UsersDocs, number_unique>>

sessVars == <<_sessions, clock>>

authVars == <<conv, session, intent>>

(* ------------------------------- inputs ------------------------------- *)
Texts == {<<"a">>, <<SP, "b">>, <<SP>>}
Captions == {<< >>, <<"c">>}
Images == {<<"IMG_A">>}

HighAll ==
  RawMap(Str(<<"Lunch">>), Num(90), Str(<<"Food">>), Num(90), Num(120),
         Num(90), Bool(FALSE))
PriceOnly ==
  RawMap(None, Num(0), Str(<<"snacks">>), Num(20), Num(635), Num(70), None)
LowPrice ==
  RawMap(Str(<<"mystery">>), Num(90), Str(<<"food", SP>>), Num(20), None,
         Num(10), None)
OnlyPriceLow ==
  RawMap(Str(<<"Salary">>), Num(90), Str(<<"Others">>), Num(80), None,
         Num(69), Bool(TRUE))
AllLow ==
  RawMap(None, Num(20), None, None, Num(5), Num(30), None)

ModelOutputs ==
  {ErrOut, GarbageOut, ListOut, Json(HighAll), Json(PriceOnly),
   Json(LowPrice), Json(OnlyPriceLow), Json(AllLow)}

\* One extractor call on the outputs o1, o2 of its two invocations.
LastOutput(o1, o2) ==
  IF categorization_with_confidence(o1, o2).invocations = 1 THEN o1 ELSE o2

Extract(o1, o2) ==
  [raised |-> categorization_with_confidence(o1, o2).raised,
   parsed |-> categorization_with_confidence(o1, o2).parsed,
   llm_failed |-> LastOutput(o1, o2).kind = "error"]

\* The outcomes an extractor call can have on the outputs above.
Extractions == {Extract(o1, o2) : o1, o2 \in ModelOutputs}

\* The Users collection the bot may find at start: the sender's account
\* missing, or registered with its number and linked to the sender, with or
\* without the phone_number field (create_user writes it, add_user of
\* experiments/db_ops.py does not), and another account.
InitialUsers ==
  {[ph \in Phones |-> IF ph = P1 THEN d1 ELSE d2] :
     d1 \in {NoDoc, UserDoc(T1, TRUE, TRUE), UserDoc(T1, TRUE, FALSE)},
     d2 \in {UserDoc(T2, TRUE, TRUE)}}

\* The account create_user writes before any Telegram link: telegram_id 0,
\* telegram_username "" and phone_number set.
NoTg == "0"
UnlinkedUsers ==
  {[ph \in Phones |-> IF ph = P1 THEN UserDoc(NoTg, TRUE, TRUE)
                                 ELSE UserDoc(T2, TRUE, TRUE)]}

NoSession == [present |-> FALSE]

\* create_session(telegram_id, phone, authed)
create_session(phone, authed) ==
  [present |-> TRUE, phone |-> phone, authed |-> authed]

NoTurn ==
  [op |-> "none", text |-> << >>, image |-> None, prior |-> NoPending,
   replies |-> << >>, calls |-> << >>, attempts |-> << >>, raised |-> FALSE]

Init ==
  /\ pending = NoPending
  /\ Queries = << >>
  /\ users \in InitialUsers
  /\ authenticated_users = {}
  /\ turn = NoTurn
  /\ hist = << >>
  /\ img0 = None
  /\ conv = "END"
  /\ session = NoSession
  /\ intent = "none"
  /\ turns = 0
  /\ tasks = << >>
  /\ UsersDocs = << >>
  /\ number_unique = TRUE
  /\ _sessions = << >>
  /\ clock = 0

\* The start of the auth conversation: as Init, the sender's account may
\* also be one that was created on the website and never linked.
InitConv ==
  /\ pending = NoPending
  /\ Queries = << >>
  /\ users \in InitialUsers \cup UnlinkedUsers
  /\ authenticated_users = {}
  /\ turn = NoTurn
  /\ hist = << >>
  /\ img0 = None
  /\ conv = "END"
  /\ session = NoSession
  /\ intent = "none"
  /\ turns = 0
  /\ tasks = << >>
  /\ UsersDocs = << >>
  /\ number_unique = TRUE
  /\ _sessions = << >>
  /\ clock = 0

(* ------------------------------ bookkeeping --------------------------- *)
Stored(attempts) ==
  LET okOnes == SelectSeq(attempts, LAMBDA a : a.ok)
  IN [i \in 1..Len(okOnes) |-> okOnes[i].doc]

\* hist follows the pending state: emptied when there is none, restarted
\* when a submission creates one, extended by a reply that updates it.
NextHist(pend, out, text, isReply) ==
  IF ~HasPending(out.pending) THEN << >>
  ELSE IF out.pending = pend THEN hist
  ELSE IF isReply THEN Append(hist, text)
  ELSE <<text>>

\* img0 follows the pending state in the same way; a reply leaves it alone.
NextImg0(pend, out, image, isReply) ==
  IF ~HasPending(out.pending) THEN None
  ELSE IF out.pending = pend \/ isReply THEN img0
  ELSE image

\* Commit of one handled update.
Commit(op, text, image, out, isReply) ==
  /\ turns < MaxTurns
  /\ turns' = turns + 1
  /\ pending' = out.pending
  /\ Queries' = Queries \o Stored(out.attempts)
  /\ hist' = NextHist(pending, out, text, isReply)
  /\ img0' = NextImg0(pending, out, image, isReply)
  /\ turn' = [op |-> op, text |-> text, image |-> image, prior |-> pending,
              replies |-> out.replies, calls |-> out.calls,
              attempts |-> out.attempts, raised |-> out.raised]
  /\ UNCHANGED <<tasks, dbVars, sessVars>>

(* ------------------------------- actions ------------------------------ *)
\* An input is drawn only when the handler reads it: Needed(used, S) is S
\* when it does, and one value of S otherwise.
Needed(used, S) == IF used THEN S ELSE {CHOOSE x \in S : TRUE}

\* The extraction outcome makes the handler call the store.
Stores(ex) == ~ex.raised /\ ~needs_clarification(ex.parsed, CONF_THRESH).ask

\* handle_text reads the extractor for a non-empty text, and insert_one
\* answers when a resolved candidate and a phone reach it.
TextExtractions(raw_text) == Needed(Strip(raw_text) # << >>, Extractions)

TextOk(raw_text, ex, ph) ==
  Needed(Strip(raw_text) # << >> /\ Stores(ex) /\ Truthy(ph), BOOLEAN)

\* handle_image reads the extractor once the photo is downloaded.
ImageExtractions(hasPhoto, dlOK) == Needed(hasPhoto /\ dlOK, Extractions)

ImageOk(hasPhoto, dlOK, ex, ph) ==
  Needed(hasPhoto /\ dlOK /\ Stores(ex) /\ Truthy(ph), BOOLEAN)

\* handle_text called directly for a text update of the sender.
HandleText ==
  /\ turns < MaxTurns
  /\ \E raw_text \in Texts, ph \in ResolvePhones(users, T1) :
     \E ex \in TextExtractions(raw_text) :
     \E ok \in TextOk(raw_text, ex, ph) :
       /\ Commit("handle_text", Strip(raw_text), None,
                 handle_text(pending, T1, raw_text, ex, ph, ok),
                 pending.stage = "await_clarify")
       /\ UNCHANGED <<users, authenticated_users, authVars>>

\* handle_image called directly for a photo update of the sender.
HandleImage ==
  /\ turns < MaxTurns
  /\ \E hasPhoto \in BOOLEAN, raw_caption \in Captions, image \in Images,
        ph \in ResolvePhones(users, T1) :
     \E dlOK \in Needed(hasPhoto, BOOLEAN) :
     \E ex \in ImageExtractions(hasPhoto, dlOK) :
     \E ok \in ImageOk(hasPhoto, dlOK, ex, ph) :
       /\ Commit("handle_image", Strip(raw_caption), Str(image),
                 handle_image(pending, T1, hasPhoto, raw_caption, image, dlOK,
                              ex, ph, ok),
                 FALSE)
       /\ UNCHANGED <<users, authenticated_users, authVars>>

\* contact_handler of main.py: the sender shares a contact; own tells whether
\* it is the sender's own contact and phone is its normalized number.
ContactHandler ==
  \E own \in BOOLEAN :
    /\ turns < MaxTurns
    /\ IF own /\ users[P1].present
       THEN /\ authenticated_users' = authenticated_users \cup {T1}
            /\ users' = [users EXCEPT ![P1].telegram_id = T1]
            /\ turn' = [NoTurn EXCEPT !.op = "contact_handler",
                                      !.prior = pending,
                                      !.replies = <<Reply("auth_ok")>>]
       ELSE /\ UNCHANGED <<authenticated_users, users>>
            /\ turn' = [NoTurn EXCEPT !.op = "contact_handler",
                                      !.prior = pending,
                                      !.replies = <<Reply("auth_failed")>>]
    /\ UNCHANGED <<pending, Queries, hist, img0, turns, tasks, dbVars, sessVars, authVars>>

\* if tg_id not in authenticated_users: reject the update.
NotAuthenticated_never == FALSE

NotAuthenticated == T1 \notin authenticated_users

\* message_handler looks at the message once the sender is authenticated and
\* a Users document is linked to the sender.
PastChecks == ~NotAuthenticated /\ LinkedPhones(users, T1) # {}

\* The inputs of message_handler for a text: ex is the outcome of its own
\* extractor call when there is no pending state and of handle_text's call
\* when there is one; ex2 that of handle_text's call after message_handler's
\* own extraction asked; okA answers add_query_for_user, okB the insert_one
\* of _store_query_for_user.
MainTextEx(raw_text) ==
  Needed(PastChecks /\ (~HasPending(pending) \/ Strip(raw_text) # << >>),
         Extractions)

MainTextEx2(raw_text, ex) ==
  Needed(PastChecks /\ ~HasPending(pending) /\ ~ex.raised /\ ~Stores(ex)
         /\ Strip(raw_text) # << >>, Extractions)

MainTextOkB(raw_text, ex, ex2, ph) ==
  Needed(/\ PastChecks
         /\ Strip(raw_text) # << >>
         /\ Truthy(ph)
         /\ IF HasPending(pending) THEN Stores(ex)
            ELSE ~ex.raised /\ ~Stores(ex) /\ Stores(ex2),
         BOOLEAN)

MainTextOkA(raw_text, ex) ==
  Needed(/\ PastChecks
         /\ Stores(ex)
         /\ HasPending(pending) => Strip(raw_text) # << >>,
         BOOLEAN)

\* message_handler for a text update of the sender.
MessageHandlerText ==
  /\ turns < MaxTurns
  /\ \E raw_text \in Texts, ph \in ResolvePhones(users, T1) :
     \E ex \in MainTextEx(raw_text) :
     \E ex2 \in MainTextEx2(raw_text, ex), okA \in MainTextOkA(raw_text, ex) :
     \E okB \in MainTextOkB(raw_text, ex, ex2, ph) :
       /\ IF NotAuthenticated
          THEN Commit("message_handler_text", Strip(raw_text), None,
                      Outcome(pending, <<Reply("not_authenticated")>>, << >>,
                              << >>, FALSE), FALSE)
          ELSE IF LinkedPhones(users, T1) = {}
          THEN Commit("message_handler_text", Strip(raw_text), None,
                      Outcome(pending, <<Reply("user_not_found")>>, << >>,
                              << >>, FALSE), FALSE)
          ELSE \E phone \in LinkedPhones(users, T1) :
                 Commit("message_handler_text", Strip(raw_text), None,
                        message_handler_text(pending, users, T1, phone, raw_text,
                                             ex, ex2, ph, okA, okB),
                        pending.stage = "await_clarify")
       /\ UNCHANGED <<users, authenticated_users, authVars>>

\* The inputs of message_handler for a photo, as for a text.
MainPhotoDl == Needed(PastChecks, BOOLEAN)

MainPhotoEx(dlOK) == Needed(PastChecks /\ dlOK, Extractions)

MainPhotoDl2(dlOK, ex) ==
  Needed(PastChecks /\ dlOK /\ ~HasPending(pending) /\ ~ex.raised
         /\ ~Stores(ex), BOOLEAN)

MainPhotoEx2(dlOK, dlOK2, ex) ==
  Needed(PastChecks /\ dlOK /\ dlOK2 /\ ~HasPending(pending) /\ ~ex.raised
         /\ ~Stores(ex), Extractions)

MainPhotoOkB(dlOK, dlOK2, ex, ex2, ph) ==
  Needed(/\ PastChecks
         /\ dlOK
         /\ Truthy(ph)
         /\ IF HasPending(pending) THEN Stores(ex)
            ELSE dlOK2 /\ ~ex.raised /\ ~Stores(ex) /\ Stores(ex2),
         BOOLEAN)

MainPhotoOkA(dlOK, ex) ==
  Needed(PastChecks /\ dlOK /\ ~HasPending(pending) /\ Stores(ex), BOOLEAN)

\* message_handler for a photo update of the sender.
MessageHandlerPhoto ==
  /\ turns < MaxTurns
  /\ \E raw_caption \in Captions, image \in Images,
        ph \in ResolvePhones(users, T1) :
     \E dlOK \in MainPhotoDl :
     \E ex \in MainPhotoEx(dlOK) :
     \E dlOK2 \in MainPhotoDl2(dlOK, ex), okA \in MainPhotoOkA(dlOK, ex) :
     \E ex2 \in MainPhotoEx2(dlOK, dlOK2, ex) :
     \E okB \in MainPhotoOkB(dlOK, dlOK2, ex, ex2, ph) :
       /\ IF NotAuthenticated
          THEN Commit("message_handler_photo", Strip(raw_caption), Str(image),
                      Outcome(pending, <<Reply("not_authenticated")>>, << >>,
                              << >>, FALSE), FALSE)
          ELSE IF LinkedPhones(users, T1) = {}
          THEN Commit("message_handler_photo", Strip(raw_caption), Str(image),
                      Outcome(pending, <<Reply("user_not_found")>>, << >>,
                              << >>, FALSE), FALSE)
          ELSE \E phone \in LinkedPhones(users, T1) :
                 Commit("message_handler_photo", Strip(raw_caption), Str(image),
                        message_handler_photo(pending, users, T1, phone,
                                              raw_caption, image, dlOK, dlOK2,
                                              ex, ex2, ph, okA, okB),
                        FALSE)
       /\ UNCHANGED <<users, authenticated_users, authVars>>

(* ------------------- auth conversation (bot/auth_handlers.py) --------- *)
\* A step of the conversation that touches neither the pending state nor
\* the store.
AuthStep(op, reply) ==
  /\ turn' = [NoTurn EXCEPT !.op = op, !.prior = pending,
                            !.replies = <<Reply(reply)>>]
  /\ UNCHANGED <<pending, Queries, hist, img0, turns, tasks, dbVars, sessVars,
               authenticated_users>>

\* start: the entry point, also on re-entry.
Start ==
  /\ conv' = "CHOOSING"
  /\ intent' = "none"
  /\ AuthStep("start", "menu")
  /\ UNCHANGED <<session, users>>

\* choice_handler
ChoiceHandler ==
  \E choice \in {"create", "authenticate", "reset", "other"} :
    /\ conv = "CHOOSING"
    /\ IF choice = "other"
       THEN /\ UNCHANGED <<conv, intent>>
            /\ AuthStep("choice_handler", "choose_valid")
       ELSE /\ conv' = "ENTER_CONTACT_OR_PHONE"
            /\ intent' = choice
            /\ AuthStep("choice_handler", "share_contact")
    /\ UNCHANGED <<session, users>>

\* Variant that also takes a typed phone number.
ContactAccepted_typed(kind, valid) == kind \in {"own", "typed"} /\ valid

\* The contact is used: it is a contact, its user_id is there and is the
\* sender's id, and normalize_phone gives a 10-digit number for it.
ContactAccepted(kind, valid) == kind = "own" /\ valid

\* A step of receive_contact_or_phone, with what the update carried.
ContactStep(kind, valid, reply) ==
  /\ turn' = [op |-> "receive_contact_or_phone", text |-> << >>,
              image |-> None, prior |-> pending,
              replies |-> <<Reply(reply)>>, calls |-> << >>,
              attempts |-> << >>, raised |-> FALSE, contact |-> kind,
              valid |-> valid]
  /\ UNCHANGED <<pending, Queries, hist, img0, turns, tasks, dbVars, sessVars,
                 authenticated_users>>

\* receive_contact_or_phone: kind is what the update carries (typed text, a
\* contact without user_id, someone else's contact, the sender's own
\* contact), valid whether the contact's phone normalizes to 10 digits, and
\* mapOK whether update_telegram_mapping succeeds (its failure is ignored).
ReceiveContactOrPhone ==
  \E kind \in {"typed", "no_user_id", "other", "own"}, valid, mapOK \in BOOLEAN :
    /\ conv = "ENTER_CONTACT_OR_PHONE"
    /\ IF ~ContactAccepted(kind, valid)
       THEN /\ UNCHANGED <<conv, session, intent, users>>
            /\ ContactStep(kind, valid, "share_own_contact")
       ELSE LET user == users[P1]
                eff == IF intent = "none"
                       THEN (IF user.present THEN "authenticate" ELSE "create")
                       ELSE intent
            IN /\ UNCHANGED intent
               /\ IF eff = "reset"
                  THEN IF ~user.present
                       THEN /\ session' = NoSession
                            /\ conv' = "END"
                            /\ UNCHANGED users
                            /\ ContactStep(kind, valid, "no_account")
                       ELSE /\ session' = create_session(P1, FALSE)
                            /\ conv' = "RESET_NEW_PASSWORD"
                            /\ UNCHANGED users
                            /\ ContactStep(kind, valid, "send_new_password")
                  ELSE IF user.present
                       THEN /\ session' = create_session(P1, TRUE)
                            /\ conv' = "ADD_QUERY"
                            /\ users' =
                                 IF mapOK
                                 THEN [users EXCEPT
                                         ![P1].telegram_id = T1,
                                         ![P1].has_username = TRUE,
                                         ![P1].has_phone_number = TRUE]
                                 ELSE users
                            /\ ContactStep(kind, valid, "auth_ok")
                       ELSE /\ session' = create_session(P1, FALSE)
                            /\ conv' = "ENTER_PASSWORD_CREATE"
                            /\ UNCHANGED users
                            /\ ContactStep(kind, valid, "send_password")

\* parse_message_to_entry and create_query as add_query_handler uses them.
parse_message_to_entry(parsed) ==
  [price |-> Or(StorePriceNum(parsed.price), Num(0)),
   name |-> Or(parsed.Name, Str(<< >>)),
   category |-> Or(parsed.category, Str(<<"uncategorized">>)),
   isIncome |-> "false"]

create_query(phone, entry, tg) ==
  [coll |-> "Queries",
   phone |-> Str(phone),
   price |-> entry.price,
   name |-> Or(entry.name, Str(<< >>)),
   category |-> Or(entry.category, Str(<<"uncategorized">>)),
   isIncome |-> entry.isIncome,
   telegram_id |-> tg]

add_query_handler(pend, sess, tg, raw_text, ex, ok) ==
  LET text == Strip(raw_text)
      call == Call(text, None, ex)
      doc == create_query(sess.phone, parse_message_to_entry(ex.parsed), tg)
  IN IF text = << >>
     THEN Outcome(pend, <<Reply("send_text")>>, << >>, << >>, FALSE)
     ELSE IF ex.raised
     THEN Outcome(pend, <<Reply("couldnt_parse")>>, <<call>>, << >>, FALSE)
     ELSE Outcome(pend,
                  <<Reply(IF ok THEN "expense_saved" ELSE "couldnt_save")>>,
                  <<call>>, Attempts(<<doc>>, ok), FALSE)

\* add_query_handler for a text of the sender in ADD_QUERY.
Authed == session.present /\ session.authed

AddQueryHandler ==
  /\ turns < MaxTurns
  /\ \E raw_text \in Texts :
     \E ex \in Needed(Authed /\ Strip(raw_text) # << >>, Extractions) :
     \E ok \in Needed(Authed /\ Strip(raw_text) # << >> /\ ~ex.raised, BOOLEAN) :
       /\ conv = "ADD_QUERY"
       /\ IF ~Authed
          THEN /\ conv' = "END"
               /\ Commit("add_query_handler", Strip(raw_text), None,
                         Outcome(pending, <<Reply("must_authenticate")>>, << >>,
                                 << >>, FALSE), FALSE)
          ELSE /\ UNCHANGED conv
               /\ Commit("add_query_handler", Strip(raw_text), None,
                         add_query_handler(pending, session, T1, raw_text, ex, ok),
                         FALSE)
       /\ UNCHANGED <<users, authenticated_users, session, intent>>

\* handle_image_in_auth for a photo of the sender in ADD_QUERY: the image
\* pipeline of handle_image behind the session check.
HandleImageInAuth ==
  /\ turns < MaxTurns
  /\ \E raw_caption \in Captions, image \in Images,
        ph \in ResolvePhones(users, T1) :
     \E dlOK \in Needed(Authed, BOOLEAN) :
     \E ex \in ImageExtractions(Authed, dlOK) :
     \E ok \in ImageOk(Authed, dlOK, ex, ph) :
       /\ conv = "ADD_QUERY"
       /\ IF ~Authed
          THEN /\ conv' = "END"
               /\ Commit("handle_image_in_auth", Strip(raw_caption), Str(image),
                         Outcome(pending, <<Reply("not_authenticated")>>, << >>,
                                 << >>, FALSE), FALSE)
          ELSE /\ UNCHANGED conv
               /\ Commit("handle_image_in_auth", Strip(raw_caption), Str(image),
                         handle_image(pending, T1, TRUE, raw_caption, image, dlOK,
                                      ex, ph, ok),
                         FALSE)
       /\ UNCHANGED <<users, authenticated_users, session, intent>>

\* logout (fallback of the conversation)
Logout ==
  /\ conv # "END"
  /\ session' = NoSession
  /\ conv' = "END"
  /\ AuthStep("logout", "logged_out")
  /\ UNCHANGED <<intent, users>>

\* cancel (fallback of the conversation)
Cancel ==
  /\ conv # "END"
  /\ conv' = "END"
  /\ AuthStep("cancel", "canceled")
  /\ UNCHANGED <<session, intent, users>>

\* get_session after expires_at: the entry is popped and None is returned;
\* nothing else is touched (the conversation state and chat_data stay).
SessionExpires ==
  /\ session.present
  /\ session' = NoSession
  /\ turn' = [NoTurn EXCEPT !.op = "session_expired", !.prior = pending]
  /\ UNCHANGED <<pending, Queries, hist, img0, turns, tasks, dbVars, sessVars,
                 authenticated_users, conv, intent, users>>

\* The password hash hash_password gives for the password sent.
Passwords == {<< >>, <<"pw">>}
hash_password(pw) == "h1"

\* The password hash of the account after receive_password_create taking
\* the password everywhere.
PasswordAfterCreate_always(user, hashed) == hashed

\* The password hash of the account after receive_password_create: an
\* existing account is linked only; create_user writes password_hash with
\* $setOnInsert for a new one.
PasswordAfterCreate(user, hashed) ==
  IF user.present THEN user.password_hash ELSE hashed

\* update_telegram_mapping on the account of P1 ($set telegram_id,
\* telegram_username, phone_number).
Linked(user) ==
  [user EXCEPT !.telegram_id = T1, !.has_username = TRUE,
               !.has_phone_number = TRUE]

\* receive_password_create: createOK tells whether create_user succeeds,
\* mapOK whether update_telegram_mapping does (its failure is ignored).
ReceivePasswordCreate ==
  \E pw \in Passwords, createOK, mapOK \in BOOLEAN :
    LET user == users[P1]
        account == [UserDoc(NoTg, TRUE, TRUE) EXCEPT !.password_hash =
                      PasswordAfterCreate(user, hash_password(pw))]
    IN /\ conv = "ENTER_PASSWORD_CREATE"
       /\ UNCHANGED intent
       /\ IF Strip(pw) = << >>
          THEN /\ UNCHANGED <<conv, session, users>>
               /\ AuthStep("receive_password_create", "password_empty")
          ELSE IF ~session.present
          THEN /\ conv' = "END"
               /\ UNCHANGED <<session, users>>
               /\ AuthStep("receive_password_create", "session_expired")
          ELSE IF user.present
          THEN /\ conv' = "ADD_QUERY"
               /\ session' = create_session(P1, TRUE)
               /\ users' = IF mapOK
                           THEN [users EXCEPT ![P1] = Linked(account)]
                           ELSE [users EXCEPT ![P1] = account]
               /\ AuthStep("receive_password_create", "already_existed")
          ELSE IF ~createOK
          THEN /\ conv' = "END"
               /\ session' = NoSession
               /\ UNCHANGED users
               /\ AuthStep("receive_password_create", "create_failed")
          ELSE /\ conv' = "ADD_QUERY"
               /\ session' = create_session(P1, TRUE)
               /\ users' = IF mapOK
                           THEN [users EXCEPT ![P1] = Linked(account)]
                           ELSE [users EXCEPT ![P1] = account]
               /\ AuthStep("receive_password_create", "account_created")

\* receive_reset_new_password: updateOK tells whether update_password_hash
\* succeeds.
ReceiveResetNewPassword ==
  \E pw \in Passwords, updateOK \in BOOLEAN :
    /\ conv = "RESET_NEW_PASSWORD"
    /\ UNCHANGED intent
    /\ IF Strip(pw) = << >>
       THEN /\ UNCHANGED <<conv, session, users>>
            /\ AuthStep("receive_reset_new_password", "password_empty")
       ELSE IF ~session.present
       THEN /\ conv' = "END"
            /\ UNCHANGED <<session, users>>
            /\ AuthStep("receive_reset_new_password", "session_expired")
       ELSE IF ~users[P1].present
       THEN /\ conv' = "END"
            /\ session' = NoSession
            /\ UNCHANGED users
            /\ AuthStep("receive_reset_new_password", "no_account")
       ELSE /\ conv' = "END"
            /\ session' = NoSession
            /\ users' = IF updateOK
                        THEN [users EXCEPT ![P1].password_hash =
                                hash_password(pw)]
                        ELSE users
            /\ AuthStep("receive_reset_new_password",
                        IF updateOK THEN "password_updated"
                        ELSE "update_failed")

\* The account of the number is created on the website while the
\* conversation waits for the password (the case the existing-account
\* branch of receive_password_create answers).
WebsiteSignup ==
  /\ conv = "ENTER_PASSWORD_CREATE"
  /\ ~users[P1].present
  /\ users' = [users EXCEPT ![P1] = UserDoc(NoTg, TRUE, TRUE)]
  /\ AuthStep("website_signup", "none")
  /\ UNCHANGED <<conv, session, intent>>

\* The steps of the conversation that lead to a session or end one.
NextAuth ==
  \/ Start
  \/ ChoiceHandler
  \/ ReceiveContactOrPhone
  \/ ReceivePasswordCreate
  \/ ReceiveResetNewPassword
  \/ WebsiteSignup
  \/ SessionExpires
  \/ Logout
  \/ Cancel

SpecAuth == InitConv /\ [][NextAuth]_vars

NextConv ==
  \/ NextAuth
  \/ AddQueryHandler
  \/ HandleImageInAuth

\* The sender inside the auth conversation.
SpecConv == InitConv /\ [][NextConv]_vars

Next ==
  \/ HandleText
  \/ HandleImage
  \/ ContactHandler
  \/ MessageHandlerText
  \/ MessageHandlerPhoto

Spec == Init /\ [][Next]_vars

(* ------------------ replies in the verify protocol -------------------- *)
\* handle_text reads chat_data["pending"]; here the pending state it finds
\* is one of the verify protocol, at any of its substages.
VerifyCandidates ==
  {_normalize_confidence_parsed(HighAll), _normalize_confidence_parsed(PriceOnly)}

VerifyPending(substage, choice, parsed) ==
  [stage |-> "verify_flow", substage |-> substage, parsed |-> parsed,
   image_b64 |-> Str(<<"IMG_A">>), user_text |-> <<"a">>, issues |-> << >>,
   choice |-> choice]

VerifyPendings ==
  {VerifyPending(ss, None, c) :
     ss \in {"absent", "await_verify_response", "choose_field"},
     c \in VerifyCandidates}
  \cup {VerifyPending("await_correction", Str(ch), c) :
          ch \in FieldChoices, c \in VerifyCandidates}

VerifyTexts ==
  {<<"yes">>, <<"YES">>, <<"Y">>, <<"Yeah">>, <<"CORRECT">>, <<SP, "Yes", SP>>,
   <<"no">>, <<"yes", SP, "please">>, <<"Name">>, <<"category">>,
   <<SP, "PRICE", SP>>, <<"all">>, <<"food">>, <<"abc">>, <<"4", "5">>,
   <<"JSON_OBJ">>, <<SP>>}

InitVerify ==
  /\ pending \in VerifyPendings
  /\ Queries = << >>
  /\ users \in InitialUsers
  /\ authenticated_users \in SUBSET {T1}
  /\ turn = NoTurn
  /\ hist = << >>
  /\ img0 = None
  /\ conv = "END"
  /\ session = NoSession
  /\ intent = "none"
  /\ turns = 0
  /\ tasks = << >>
  /\ UsersDocs = << >>
  /\ number_unique = TRUE
  /\ _sessions = << >>
  /\ clock = 0

\* The verify branch of handle_text makes no extractor call.
NoExtraction == CHOOSE ex \in Extractions : TRUE

\* The reply makes handle_text call the store.
VerifyStores(raw_text) ==
  /\ pending.stage = "verify_flow"
  /\ pending.substage \in {"absent", "await_verify_response"}
  /\ Lower(Strip(raw_text)) \in YesTokens

\* handle_text called directly for a reply in the verify protocol.
VerifyHandleText ==
  /\ turns < MaxTurns
  /\ \E raw_text \in VerifyTexts, ph \in ResolvePhones(users, T1) :
     \E ok \in Needed(VerifyStores(raw_text) /\ Truthy(ph), BOOLEAN) :
       /\ pending.stage = "verify_flow"
       /\ Commit("handle_text", Strip(raw_text), None,
                 handle_text(pending, T1, raw_text, NoExtraction, ph, ok), FALSE)
       /\ UNCHANGED <<users, authenticated_users, authVars>>

\* message_handler for a reply in the verify protocol.
VerifyMessageHandlerText ==
  /\ turns < MaxTurns
  /\ \E raw_text \in VerifyTexts, ph \in ResolvePhones(users, T1) :
     \E okA \in Needed(PastChecks /\ VerifyStores(raw_text), BOOLEAN) :
     \E okB \in Needed(PastChecks /\ VerifyStores(raw_text) /\ Truthy(ph), BOOLEAN) :
       /\ pending.stage = "verify_flow"
       /\ IF NotAuthenticated
          THEN Commit("message_handler_text", Strip(raw_text), None,
                      Outcome(pending, <<Reply("not_authenticated")>>, << >>,
                              << >>, FALSE), FALSE)
          ELSE IF LinkedPhones(users, T1) = {}
          THEN Commit("message_handler_text", Strip(raw_text), None,
                      Outcome(pending, <<Reply("user_not_found")>>, << >>,
                              << >>, FALSE), FALSE)
          ELSE \E phone \in LinkedPhones(users, T1) :
                 Commit("message_handler_text", Strip(raw_text), None,
                        message_handler_text(pending, users, T1, phone, raw_text,
                                             NoExtraction, NoExtraction, ph, okA,
                                             okB),
                        FALSE)
       /\ UNCHANGED <<users, authenticated_users, authVars>>

NextVerify ==
  \/ VerifyHandleText
  \/ VerifyMessageHandlerText

SpecVerify == InitVerify /\ [][NextVerify]_vars

(* ------------------ the pure functions, applied to inputs ------------- *)
\* Each behaviour applies one function to one input.
\* Candidates of the policy: any subset of the three confidence keys, each
\* with a confidence in percent, and the thresholds they are compared with.
ConfKeys == {"name_confidence", "category_confidence", "price_confidence"}
Confidences == {0, 69, 70, 71, 100}
Thresholds == {0, 50, 70, 100}
PolicyCandidates == UNION {[K -> Confidences] : K \in SUBSET ConfKeys}

\* Issue lists: every list of distinct fields, in any order.
Fields == {"name", "category", "price"}
IssueLists ==
  {s \in UNION {[1..n -> Fields] : n \in 0..3} :
     \A i \in 1..Len(s), j \in 1..Len(s) : i # j => s[i] # s[j]}

\* Raw maps of the extractor: a null value stands for a missing key as well
\* (dict.get returns None for both).
RawCategories ==
  {None, Str(<<"food">>), Str(<<SP, "Travel", SP>>), Str(<<"FOOD">>),
   Str(<<"snacks">>), Str(<< >>), Num(5)}
RawConfs == {Num(80), Str(<<"7", "0">>), Str(<<"high">>)}
NormalizerInputs ==
  {RawMap(n, nc, c, cc, p, pc, inc) :
     n \in {None, Str(<<"Lunch">>)}, nc \in {Num(90), None},
     c \in RawCategories, cc \in RawConfs, p \in {Num(120), None},
     pc \in {Num(70), Num(10)}, inc \in {Bool(TRUE), Bool(FALSE), None}}

FinalizePaths ==
  {"handle_text", "handle_image", "message_handler", "add_query_handler"}

\* The document a finalize path hands to insert_one for the sender (T1,
\* phone P1) and a candidate.
FinalizeDoc(path, us, parsed) ==
  CASE path \in {"handle_text", "handle_image"} ->
         _store_query_for_user(Str(P1), T1, parsed)[1]
    [] path = "message_handler" -> add_query_for_user(P1, us, parsed)
    [] path = "add_query_handler" ->
         create_query(P1, parse_message_to_entry(parsed), T1)

NeedsClarificationStep ==
  \E c \in PolicyCandidates, th \in Thresholds :
    /\ turn = NoTurn
    /\ turn' = [op |-> "needs_clarification", parsed |-> c, thresh |-> th,
                result |-> needs_clarification(c, th)]
    /\ UNCHANGED <<pending, Queries, users, authenticated_users, hist, img0,
                   conv, session, intent, turns, tasks, dbVars, sessVars>>

QuestionStep ==
  \E issues \in IssueLists :
    /\ turn = NoTurn
    /\ turn' = [op |-> "_start_verif_question_issues", issues |-> issues,
                result |-> _start_verif_question_issues(issues)]
    /\ UNCHANGED <<pending, Queries, users, authenticated_users, hist, img0,
                   conv, session, intent, turns, tasks, dbVars, sessVars>>

NormalizeStep ==
  \E m \in NormalizerInputs :
    /\ turn = NoTurn
    /\ turn' = [op |-> "normalize", raw |-> m,
                raised |-> NormalizeRaises(Json(m)),
                result |-> IF NormalizeRaises(Json(m))
                           THEN FallbackCandidate
                           ELSE _normalize_confidence_parsed(m)]
    /\ UNCHANGED <<pending, Queries, users, authenticated_users, hist, img0,
                   conv, session, intent, turns, tasks, dbVars, sessVars>>

\* Extraction of a raw map followed by the insert of a finalize path. The
\* chat handlers finalize a candidate that needs no clarification;
\* add_query_handler stores whatever was extracted.
FinalizeStep ==
  \E m \in NormalizerInputs, path \in FinalizePaths :
    /\ turn = NoTurn
    /\ ~NormalizeRaises(Json(m))
    /\ users[P1].present
    /\ path \in {"handle_text", "handle_image"} => users[P1].has_phone_number
    /\ \/ path = "add_query_handler"
       \/ ~needs_clarification(_normalize_confidence_parsed(m),
                               CONF_THRESH).ask
    /\ turn' = [op |-> "finalize", path |-> path, raw |-> m,
                parsed |-> _normalize_confidence_parsed(m),
                doc |-> FinalizeDoc(path, users,
                                    _normalize_confidence_parsed(m))]
    /\ UNCHANGED <<pending, Queries, users, authenticated_users, hist, img0,
                   conv, session, intent, turns, tasks, dbVars, sessVars>>

\* One call of categorization_with_confidence on the outputs of its two
\* invocations (the second is read only if the call makes it).
ExtractorOutputs == ModelOutputs \cup {EmptyOut}

ExtractStep ==
  \E o1, o2 \in ExtractorOutputs :
    /\ turn = NoTurn
    /\ turn' = [op |-> "categorization_with_confidence", o1 |-> o1, o2 |-> o2,
                result |-> categorization_with_confidence(o1, o2)]
    /\ UNCHANGED <<pending, Queries, users, authenticated_users, hist, img0,
                   conv, session, intent, turns, tasks, dbVars, sessVars>>

\* Price strings a candidate may carry (the model's price, or a price
\* correction of the user): 1,200 rupees, 20rs, Rs 20, plain and padded
\* numbers, a dollar amount, and text that is no number.
PriceStrings ==
  {<<"₹", "1", ",", "2", "0", "0">>, <<"2", "0", "rs">>,
   <<"Rs", SP, "2", "0">>, <<"2", "0">>, <<SP, "4", "5", SP>>,
   <<"$", "5">>, <<"abc">>, <<"2", "0", SP, "abc">>}

PriceCandidate(s) ==
  [_normalize_confidence_parsed(HighAll) EXCEPT !.price = Str(s)]

\* The price coercions applied to one price string: _normalize_parsed of
\* main.py, the coercion inside _store_query_for_user with the price it
\* writes into the document, and parse_message_to_entry.
PriceStep ==
  \E s \in PriceStrings :
    /\ turn = NoTurn
    /\ turn' = [op |-> "price", raw |-> s,
                main |-> _normalize_parsed(PriceCandidate(s)).price,
                store |-> StorePriceNum(Str(s)),
                stored |-> QueryDoc(Str(P1), T1, PriceCandidate(s)).price,
                entry |-> parse_message_to_entry(PriceCandidate(s)).price]
    /\ UNCHANGED <<pending, Queries, users, authenticated_users, hist, img0,
                   conv, session, intent, turns, tasks, dbVars, sessVars>>

\* Key spellings of a raw map and str(k).strip().lower() on them.
NameKeys == {"Name", "name", "NAME", "item", "Item", "title", "TITLE"}
CategoryKeys == {"category", "Category", "type", "TYPE"}
PriceKeys == {"price", "PRICE", "cost", "Cost", "amount", "Amount"}

LowerKey(k) ==
  CASE k \in {"Name", "name", "NAME"} -> "name"
    [] k \in {"item", "Item"} -> "item"
    [] k \in {"title", "TITLE"} -> "title"
    [] k \in {"category", "Category"} -> "category"
    [] k \in {"type", "TYPE"} -> "type"
    [] k \in {"price", "PRICE"} -> "price"
    [] k \in {"cost", "Cost"} -> "cost"
    [] k \in {"amount", "Amount"} -> "amount"
    [] OTHER -> k

\* p = {str(k).strip().lower(): v for k, v in parsed.items()}; the maps
\* drawn below carry no two keys with the same lower-case spelling.
LowerKeys(m) ==
  [lk \in {LowerKey(k) : k \in DOMAIN m} |->
     m[CHOOSE k \in DOMAIN m : LowerKey(k) = lk]]

Get(p, k) == IF k \in DOMAIN p THEN p[k] ELSE None

\* _normalize_parsed on a raw map with arbitrary keys (p.get("Name") can
\* never hit, every key of p being lower case).
_normalize_parsed_raw(m) ==
  LET p == LowerKeys(m)
  IN [name |-> Or(Or(Or(Get(p, "name"), Get(p, "item")), Get(p, "title")),
                  Get(p, "Name")),
      category |-> Or(Or(Get(p, "category"), Get(p, "type")),
                      Str(<<"Unknown">>)),
      price |-> MainPriceNum(Or(Or(Get(p, "price"), Get(p, "cost")),
                                Num(0)))]

AliasMap(nk, ck, pk, n, c, p) ==
  [k \in {nk, ck, pk} |-> IF k = nk THEN n ELSE IF k = ck THEN c ELSE p]

AliasNames == {Str(<<"Tea">>), None}
AliasPrices == {Num(20), Str(<<"2", "0", "rs">>), Str(<<"Rs", SP, "2", "0">>)}

\* _normalize_parsed on a map that carries name, category and price under
\* one spelling each, on the map with the canonical keys, a second time on
\* the same map, and on its own output.
AliasStep ==
  \E nk \in NameKeys, ck \in CategoryKeys, pk \in PriceKeys,
     n \in AliasNames, p \in AliasPrices :
    LET raw == AliasMap(nk, ck, pk, n, Str(<<"food">>), p)
        canon == AliasMap("Name", "category", "price", n, Str(<<"food">>), p)
    IN /\ turn = NoTurn
       /\ turn' = [op |-> "alias", keys |-> <<nk, ck, pk>>, raw |-> raw,
                   entry |-> _normalize_parsed_raw(raw),
                   canonical |-> _normalize_parsed_raw(canon),
                   second |-> _normalize_parsed_raw(raw),
                   raw_after |-> raw,
                   again |-> _normalize_parsed_raw(_normalize_parsed_raw(raw))]
       /\ UNCHANGED <<pending, Queries, users, authenticated_users, hist,
                      img0, conv, session, intent, turns, tasks, dbVars, sessVars>>

\* A candidate read as a raw map again (confidences are numbers, the
\* isIncome key is absent).
AsRaw(c) ==
  RawMap(c.Name, Num(c.name_confidence), c.category,
         Num(c.category_confidence), c.price, Num(c.price_confidence), None)

\* _normalize_confidence_parsed called twice on one raw map that it
\* accepts, and once on its own output; it builds a new dict `out` and
\* assigns to no key of `parsed`.
NormalizeTwiceStep ==
  \E m \in NormalizerInputs :
    /\ turn = NoTurn
    /\ ~NormalizeRaises(Json(m))
    /\ turn' = [op |-> "normalize_twice", raw |-> m,
                entry |-> _normalize_confidence_parsed(m),
                second |-> _normalize_confidence_parsed(m),
                raw_after |-> m,
                again |-> _normalize_confidence_parsed(
                            AsRaw(_normalize_confidence_parsed(m)))]
    /\ UNCHANGED <<pending, Queries, users, authenticated_users, hist, img0,
                   conv, session, intent, turns, tasks, dbVars, sessVars>>

NextFn ==
  \/ ExtractStep
  \/ PriceStep
  \/ AliasStep
  \/ NormalizeTwiceStep
  \/ NeedsClarificationStep
  \/ QuestionStep
  \/ NormalizeStep
  \/ FinalizeStep

SpecFn == Init /\ [][NextFn]_vars

(* -------------------- webhook endpoint (api/index.py) ----------------- *)
\* webhook awaits bot_app.process_update(update) inside the coroutine of its
\* request; the requests of one event loop interleave at every await, so a
\* handler that awaits run_in_executor is suspended while later requests are
\* dispatched, and a handler that calls the extractor directly keeps the
\* loop until the call returns.
InitWebhook ==
  /\ pending = NoPending
  /\ Queries = << >>
  /\ users \in {u \in InitialUsers : LinkedPhones(u, T1) # {}}
  /\ authenticated_users = {T1}
  /\ turn = NoTurn
  /\ hist = << >>
  /\ img0 = None
  /\ conv \in {"END", "ADD_QUERY"}
  /\ session = IF conv = "ADD_QUERY" THEN create_session(P1, TRUE)
               ELSE NoSession
  /\ intent = "none"
  /\ turns = 0
  /\ tasks = << >>
  /\ UsersDocs = << >>
  /\ number_unique = TRUE
  /\ _sessions = << >>
  /\ clock = 0

\* The handler the application routes a text of the sender to: the auth
\* conversation in ADD_QUERY, message_handler otherwise.
RoutedHandler ==
  IF conv = "ADD_QUERY" THEN "add_query_handler" ELSE "message_handler"

\* How the handler calls the extractor: add_query_handler calls
\* parse_message_to_entry, which calls categorization_with_confidence
\* directly; message_handler and handle_text await loop.run_in_executor.
ExtractorMode(handler) ==
  IF handler = "add_query_handler" THEN "sync" ELSE "executor"

\* The handler reaches an extractor call on this text.
Suspends(raw_text) ==
  IF conv = "ADD_QUERY" THEN Authed /\ Strip(raw_text) # << >>
  ELSE PastChecks /\ (~HasPending(pending) \/ Strip(raw_text) # << >>)

\* A synchronous extractor call is running on the event loop.
LoopBlocked == \E i \in DOMAIN tasks : tasks[i].mode = "sync"

\* What the handler does from the pending state it read (prior) and the
\* outcomes of its calls.
WebhookOutcome(handler, prior, raw_text, phone, ph, ex, ex2, okA, okB) ==
  IF handler = "add_query_handler"
  THEN add_query_handler(prior, session, T1, raw_text, ex, okA)
  ELSE message_handler_text(prior, users, T1, phone, raw_text, ex, ex2, ph,
                            okA, okB)

\* A handler that returns before any extractor call.
ImmediateOutcome(raw_text) ==
  IF conv = "ADD_QUERY"
  THEN IF ~Authed
       THEN Outcome(pending, <<Reply("must_authenticate")>>, << >>, << >>,
                    FALSE)
       ELSE add_query_handler(pending, session, T1, raw_text, NoExtraction,
                              FALSE)
  ELSE IF NotAuthenticated
  THEN Outcome(pending, <<Reply("not_authenticated")>>, << >>, << >>, FALSE)
  ELSE IF LinkedPhones(users, T1) = {}
  THEN Outcome(pending, <<Reply("user_not_found")>>, << >>, << >>, FALSE)
  ELSE message_handler_text(pending, users, T1,
                            CHOOSE phone \in LinkedPhones(users, T1) : TRUE,
                            raw_text, NoExtraction, NoExtraction, None, FALSE,
                            FALSE)

\* The writes of a handler that read prior: chat_data["pending"] is assigned
\* or popped only where the handler does so, and then from what it read.
WebhookCommit(handler, raw_text, prior, out) ==
  LET written == IF out.pending = prior THEN pending ELSE out.pending
  IN /\ pending' = written
     /\ Queries' = Queries \o Stored(out.attempts)
     /\ hist' = IF ~HasPending(written) THEN << >>
                ELSE IF out.pending = prior THEN hist
                ELSE IF HasPending(prior) THEN Append(hist, Strip(raw_text))
                ELSE <<Strip(raw_text)>>
     /\ turn' = [op |-> "webhook", handler |-> handler,
                 text |-> Strip(raw_text), image |-> None, prior |-> prior,
                 current |-> pending, replies |-> out.replies,
                 calls |-> out.calls, attempts |-> out.attempts,
                 raised |-> out.raised]

\* POST /webhook with a text of the sender: process_update runs the handler
\* up to its extractor call.
WebhookDispatch ==
  /\ turns < MaxTurns
  /\ ~LoopBlocked
  /\ \E raw_text \in Texts :
       /\ turns' = turns + 1
       /\ IF Suspends(raw_text)
          THEN /\ tasks' = Append(tasks,
                                  [handler |-> RoutedHandler,
                                   mode |-> ExtractorMode(RoutedHandler),
                                   prior |-> pending, text |-> raw_text])
               /\ turn' = [NoTurn EXCEPT !.op = "webhook_dispatch",
                                         !.text = Strip(raw_text),
                                         !.prior = pending]
               /\ UNCHANGED <<pending, Queries, hist, conv>>
          ELSE /\ WebhookCommit(RoutedHandler, raw_text, pending,
                                ImmediateOutcome(raw_text))
               /\ conv' = IF conv = "ADD_QUERY" /\ ~Authed THEN "END"
                          ELSE conv
               /\ UNCHANGED tasks
       /\ UNCHANGED <<users, authenticated_users, img0, session, intent,
                      dbVars, sessVars>>

\* The extractor call of a suspended handler returns and the handler runs to
\* its end; a handler waiting for the executor resumes only on a free loop.
WebhookFinish ==
  \E i \in DOMAIN tasks :
    LET t == tasks[i]
    IN /\ LoopBlocked => t.mode = "sync"
       /\ \E phone \in LinkedPhones(users, T1), ph \in ResolvePhones(users, T1),
             ex \in Extractions, okA, okB \in BOOLEAN :
          \E ex2 \in Needed(/\ t.handler = "message_handler"
                            /\ ~HasPending(t.prior)
                            /\ ~ex.raised /\ ~Stores(ex), Extractions) :
            WebhookCommit(t.handler, t.text, t.prior,
                          WebhookOutcome(t.handler, t.prior, t.text, phone, ph,
                                         ex, ex2, okA, okB))
       /\ tasks' = [j \in 1..(Len(tasks) - 1) |->
                      IF j < i THEN tasks[j] ELSE tasks[j + 1]]
       /\ UNCHANGED <<users, authenticated_users, img0, conv, session, intent,
                      turns, dbVars, sessVars>>

\* POST /webhook with a message of another chat, whose sender is not
\* authenticated: message_handler answers and returns.
WebhookOther ==
  /\ turns < MaxTurns
  /\ ~LoopBlocked
  /\ turns' = turns + 1
  /\ turn' = [NoTurn EXCEPT !.op = "webhook_other", !.prior = pending,
                            !.replies = <<Reply("not_authenticated")>>]
  /\ UNCHANGED <<pending, Queries, users, authenticated_users, hist, img0,
                 conv, session, intent, tasks, dbVars, sessVars>>

NextWebhook ==
  \/ WebhookDispatch
  \/ WebhookFinish
  \/ WebhookOther

SpecWebhook == InitWebhook /\ [][NextWebhook]_vars

(* --------------------- create_user (bot/user_model.py) ---------------- *)
TenDigits == <<"9", "8", "7", "6", "5", "4", "3", "2", "1", "0">>

\* Phones handed to create_user: ten digits, nine, eleven, none, and ten
\* characters that are not all digits.
CreatePhones ==
  {TenDigits, SubSeq(TenDigits, 1, 9), TenDigits \o <<"1">>, << >>,
   [TenDigits EXCEPT ![1] = "a"]}

PasswordHashes == {"h1", "h2"}

\* not phone10 or not phone10.isdigit() or len(phone10) != 10
InvalidPhone(phone10) ==
  \/ phone10 = << >>
  \/ \E i \in 1..Len(phone10) : phone10[i] \notin Digits
  \/ Len(phone10) # 10

\* The $setOnInsert fields of the upsert.
NewUserDocument(phone10, password_hash) ==
  [number |-> phone10, phone_number |-> phone10, telegram_username |-> << >>,
   telegram_id |-> 0, password_hash |-> password_hash]

\* The documents the filter {"number": phone10} matches.
Matching(docs, phone10) == {i \in DOMAIN docs : docs[i].number = phone10}

\* The unique index on Users.number is created by _create_indexes of
\* main.py; init_bot of api/index.py creates one on db.users.phone_number,
\* another collection, and none on Users.
InitUsers ==
  /\ pending = NoPending
  /\ Queries = << >>
  /\ users \in InitialUsers
  /\ authenticated_users = {}
  /\ turn = NoTurn
  /\ hist = << >>
  /\ img0 = None
  /\ conv = "END"
  /\ session = NoSession
  /\ intent = "none"
  /\ turns = 0
  /\ tasks = << >>
  /\ UsersDocs = << >>
  /\ number_unique \in BOOLEAN
  /\ _sessions = << >>
  /\ clock = 0

\* The password hash of the first create_user call that completed for a
\* valid phone (None before any did).
FirstDone == IF "first" \in DOMAIN turn THEN turn.first ELSE None

CreateUserDone(phone10, password_hash, raised) ==
  turn' = [op |-> "create_user", phone |-> phone10, hash |-> password_hash,
           raised |-> raised, before |-> UsersDocs,
           first |-> IF raised \/ FirstDone # None THEN FirstDone
                     ELSE Str(password_hash)]

RemoveTask(i) ==
  [j \in 1..(Len(tasks) - 1) |-> IF j < i THEN tasks[j] ELSE tasks[j + 1]]

\* create_user is called: an invalid phone raises ValueError before any
\* database call; otherwise find_one_and_update is sent.
CreateUserCall ==
  /\ turns < MaxTurns
  /\ \E phone10 \in CreatePhones, password_hash \in PasswordHashes :
       /\ turns' = turns + 1
       /\ IF InvalidPhone(phone10)
          THEN /\ CreateUserDone(phone10, password_hash, TRUE)
               /\ UNCHANGED tasks
          ELSE /\ tasks' = Append(tasks, [op |-> "create_user",
                                          phone |-> phone10,
                                          hash |-> password_hash,
                                          pc |-> "match"])
               /\ turn' = [op |-> "create_user_call", phone |-> phone10,
                           hash |-> password_hash, first |-> FirstDone]
  /\ UNCHANGED <<pending, Queries, users, authenticated_users, hist, img0,
                 conv, session, intent, UsersDocs, number_unique,
                 sessVars>>

\* The server evaluates the filter of the upsert: a matching document gets
\* $set updated_at and is returned; with none the upsert goes on to insert.
UpsertMatch ==
  \E i \in DOMAIN tasks :
    /\ tasks[i].pc = "match"
    /\ IF Matching(UsersDocs, tasks[i].phone) # {}
       THEN /\ tasks' = RemoveTask(i)
            /\ CreateUserDone(tasks[i].phone, tasks[i].hash, FALSE)
       ELSE /\ tasks' = [tasks EXCEPT ![i].pc = "insert"]
            /\ UNCHANGED turn
    /\ UNCHANGED <<pending, Queries, users, authenticated_users, hist, img0,
                   conv, session, intent, turns, UsersDocs, number_unique,
                 sessVars>>

\* The insert of the upsert: with the unique index a number inserted in the
\* meantime gives DuplicateKeyError and create_user returns find_one of the
\* filter; without the index the document is inserted.
UpsertInsert ==
  \E i \in DOMAIN tasks :
    /\ tasks[i].pc = "insert"
    /\ UsersDocs' =
         IF number_unique /\ Matching(UsersDocs, tasks[i].phone) # {}
         THEN UsersDocs
         ELSE Append(UsersDocs,
                     NewUserDocument(tasks[i].phone, tasks[i].hash))
    /\ tasks' = RemoveTask(i)
    /\ CreateUserDone(tasks[i].phone, tasks[i].hash, FALSE)
    /\ UNCHANGED <<pending, Queries, users, authenticated_users, hist, img0,
                   conv, session, intent, turns, number_unique,
                 sessVars>>

NextUsers ==
  \/ CreateUserCall
  \/ UpsertMatch
  \/ UpsertInsert

SpecUsers == InitUsers /\ [][NextUsers]_vars

(* ------------------------- vocabulary of the claims ------------------- *)
TextOps == {"handle_text", "message_handler_text"}
PhotoOps == {"handle_image", "message_handler_photo"}
SubmissionOps == TextOps \cup PhotoOps \cup {"handle_image_in_auth"}

Resolved(call) ==
  ~call.raised /\ ~needs_clarification(call.parsed, CONF_THRESH).ask

Unresolved(call) ==
  ~call.raised /\ needs_clarification(call.parsed, CONF_THRESH).ask

IssuesOf(call) == needs_clarification(call.parsed, CONF_THRESH).issues

FullyConfident(call) ==
  /\ ~call.raised
  /\ call.parsed.name_confidence >= CONF_THRESH
  /\ call.parsed.category_confidence >= CONF_THRESH
  /\ call.parsed.price_confidence >= CONF_THRESH

\* The last update was a text reply handled in AwaitClarify (the extractor
\* was called for it).
ClarifyTurn ==
  /\ turn.op \in TextOps
  /\ turn.prior.stage = "await_clarify"
  /\ Len(turn.calls) = 1

\* The last update was a submission handled with no pending state.
SubmissionTurn ==
  /\ turn.op \in SubmissionOps
  /\ ~HasPending(turn.prior)
  /\ Len(turn.calls) >= 1

LastCall == turn.calls[Len(turn.calls)]

\* The sender is authenticated for both stores: the Users document linked to
\* the sender holds the phone under the key _store_query_for_user reads.
SenderPhoneKnown ==
  \E ph \in LinkedPhones(users, T1) : users[ph].has_phone_number

Questions(replies) == SelectSeq(replies, LAMBDA r : r.kind \in QuestionKinds)

RECURSIVE JoinSP(_)
JoinSP(texts) ==
  IF Len(texts) = 1 THEN texts[1]
  ELSE JoinSP(SubSeq(texts, 1, Len(texts) - 1)) \o <<SP>> \o texts[Len(texts)]

(* -------------------------------- claims ------------------------------ *)
\* C1: an AwaitClarify reply handled through message_handler and handle_text
\* whose re-extraction is resolved makes exactly one insert_one call.
C1_OneInsertPerResolution ==
  (ClarifyTurn /\ turn.op = "message_handler_text" /\ Resolved(turn.calls[1]))
    => Len(turn.attempts) = 1

\* C2: when insert_one fails on the AwaitClarify -> resolved transition, the
\* Pending Resolution State is not cleared and its candidate is kept.
C2_PendingKeptOnStoreFailure ==
  (/\ ClarifyTurn
   /\ Resolved(turn.calls[1])
   /\ \E i \in 1..Len(turn.attempts) :
        turn.attempts[i].doc.coll = "Queries" /\ ~turn.attempts[i].ok)
    => pending = turn.prior

\* C3: with no pending state, a submission of a sender whose linked account
\* holds the phone, and whose extraction is confident in name, category and price ends the turn
\* with no pending state and exactly one insert_one call, whose document is
\* the one record added to the store when the call succeeds.
C3_ConfidentSubmission ==
  (SubmissionTurn /\ FullyConfident(LastCall) /\ SenderPhoneKnown)
    => /\ ~HasPending(pending)
       /\ Len(turn.attempts) = 1
       /\ turn.attempts[1].ok =>
            /\ Len(Queries) >= 1
            /\ Queries[Len(Queries)] = turn.attempts[1].doc

C3_Witness ==
  /\ SubmissionTurn
  /\ FullyConfident(LastCall)
  /\ SenderPhoneKnown
  /\ turn.op = "message_handler_text"
  /\ Len(Queries) = 1

\* C4: with no pending state, a submission whose extraction needs
\* clarification makes no insert and ends the turn in AwaitClarify, after
\* exactly one question; also on the message_handler path.
C4_UnresolvedSubmission ==
  (SubmissionTurn /\ Unresolved(turn.calls[1]))
    => /\ turn.attempts = << >>
       /\ pending.stage = "await_clarify"
       /\ Len(Questions(turn.replies)) = 1

\* C5: an AwaitClarify text reply whose re-extraction is resolved hands the
\* new candidate to the store when the sender's linked account holds the
\* phone (it is in the store when insert_one succeeds) and leaves no pending
\* state; a reply whose re-extraction is unresolved
\* leaves the stage AwaitClarify with the issues and candidate of the new
\* extraction and emits exactly one question, the one for those issues.
C5_ClarifyReply ==
  ClarifyTurn =>
    /\ Resolved(turn.calls[1]) =>
         /\ ~HasPending(pending)
         /\ SenderPhoneKnown =>
              /\ Len(turn.attempts) >= 1
              /\ turn.attempts[1].doc.coll = "Queries"
              /\ turn.attempts[1].doc.name
                   = Or(turn.calls[1].parsed.Name, Str(<< >>))
              /\ turn.attempts[1].doc.price
                   = Or(StorePriceNum(turn.calls[1].parsed.price), Num(0))
              /\ turn.attempts[1].ok =>
                   \E i \in 1..Len(Queries) : Queries[i] = turn.attempts[1].doc
    /\ Unresolved(turn.calls[1]) =>
         /\ pending.stage = "await_clarify"
         /\ pending.parsed = turn.calls[1].parsed
         /\ pending.issues = IssuesOf(turn.calls[1])
         /\ turn.attempts = << >>
         /\ turn.replies = <<_start_verif_question_issues(pending.issues)>>

C5_Witness ==
  /\ ClarifyTurn
  /\ Unresolved(turn.calls[1])
  /\ turn.prior.parsed # pending.parsed
  /\ turn.prior.issues # pending.issues

\* C6: in AwaitClarify the accumulated text is the initial text followed by
\* the replies in receipt order, each joined with one space, and the
\* extractor is called with the accumulated text joined with the reply.
C6_AccumulatedText ==
  /\ pending.stage = "await_clarify" =>
       /\ hist # << >>
       /\ pending.user_text = JoinSP(hist)
  /\ ClarifyTurn =>
       turn.calls[1].text = turn.prior.user_text \o <<SP>> \o turn.text

C6_Witness ==
  /\ pending.stage = "await_clarify"
  /\ Len(hist) = 3
  /\ hist[2] # hist[3]
  /\ ClarifyTurn

\* C7: a text reply never changes the stored image: the re-extraction gets
\* the stored image, and the image of a pending state is the image of the
\* submission that created it (None for a text submission).
C7_ImageCarried ==
  /\ HasPending(pending) => pending.image_b64 = img0
  /\ ClarifyTurn => turn.calls[1].image = turn.prior.image_b64
  /\ (turn.op \in TextOps /\ HasPending(turn.prior) /\ HasPending(pending))
       => pending.image_b64 = turn.prior.image_b64

C7_Witness ==
  /\ ClarifyTurn
  /\ HasPending(pending)
  /\ pending.image_b64 # None
  /\ Len(hist) = 3

\* C8: while a pending state exists, a new submission (text or photo) is
\* folded into its accumulated text: it neither replaces the pending state
\* by a fresh one nor persists an entry while the state stays pending.
C8_SubmissionFolded ==
  (/\ turn.op \in SubmissionOps
   /\ HasPending(turn.prior)
   /\ Len(turn.calls) >= 1
   /\ ~turn.calls[1].raised)
    => /\ HasPending(pending) =>
            /\ pending.user_text = turn.prior.user_text \o <<SP>> \o turn.text
            /\ turn.attempts = << >>
       /\ turn.calls[1].text = turn.prior.user_text \o <<SP>> \o turn.text

\* C10: when the extractor invocation fails during a transition, the user
\* gets an error reply, no insert is made and the pending state is what it
\* was before the message.
ErrorReplies == {"went_wrong"}

C10_ExtractorFailure ==
  (/\ turn.op \in SubmissionOps
   /\ \E i \in 1..Len(turn.calls) :
        turn.calls[i].raised \/ turn.calls[i].llm_failed)
    => /\ pending = turn.prior
       /\ turn.attempts = << >>
       /\ \E j \in 1..Len(turn.replies) : turn.replies[j].kind \in ErrorReplies

\* C9: an explicit cancel command leaves the conversation with no pending
\* state, whatever stage it was in.
C9_CancelClearsPending ==
  turn.op = "cancel" => ~HasPending(pending)

\* C11: when the extractor returns the all-null candidate it builds after two
\* unparseable attempts, the state does not advance: no pending state is
\* created, a pending state keeps its candidate, issues and accumulated
\* text, and nothing is inserted.
C11_UnparseableKeepsState ==
  (/\ turn.op \in SubmissionOps
   /\ Len(turn.calls) >= 1
   /\ ~LastCall.raised
   /\ LastCall.parsed = FallbackCandidate)
    => /\ pending = turn.prior
       /\ turn.attempts = << >>
       /\ Questions(turn.replies) = << >>

\* C12: an update message_handler receives from a sender who is not in
\* authenticated_users, or to whom no Users document is linked, is rejected:
\* no extractor call, no insert, the pending state untouched.
C12_Unauthenticated ==
  (/\ turn.op \in {"message_handler_text", "message_handler_photo"}
   /\ (T1 \notin authenticated_users \/ LinkedPhones(users, T1) = {}))
    => /\ turn.calls = << >>
       /\ turn.attempts = << >>
       /\ pending = turn.prior
       /\ Len(turn.replies) = 1
       /\ turn.replies[1].kind \in {"not_authenticated", "user_not_found"}

C12_Witness ==
  /\ turn.op = "message_handler_text"
  /\ T1 \notin authenticated_users
  /\ LinkedPhones(users, T1) # {}
  /\ HasPending(pending)
  /\ turn.replies = <<Reply("not_authenticated")>>

\* C13: whenever the price confidence of a candidate reaches the threshold,
\* needs_clarification answers ask = False with no issues, whatever the name
\* and category confidences (present or missing) are.
C13_ConfidentPriceShortcut ==
  (/\ turn.op = "needs_clarification"
   /\ ConfOf(turn.parsed, "price_confidence") >= turn.thresh)
    => turn.result = [ask |-> FALSE, issues |-> << >>]

C13_Witness ==
  /\ turn.op = "needs_clarification"
  /\ turn.thresh = 70
  /\ "name_confidence" \notin DOMAIN turn.parsed
  /\ "category_confidence" \in DOMAIN turn.parsed
  /\ turn.parsed["category_confidence"] = 0
  /\ "price_confidence" \in DOMAIN turn.parsed
  /\ turn.parsed["price_confidence"] = 70
  /\ ~turn.result.ask

\* The fields of a candidate whose confidence (zero when missing) is below
\* the threshold, in the order name, category, price.
FieldsBelow(parsed, thresh) ==
  SelectSeq(<<"name", "category", "price">>,
            LAMBDA f : \/ (f = "name" /\ "name_confidence" \notin DOMAIN parsed)
                       \/ (f = "name" /\ "name_confidence" \in DOMAIN parsed
                             /\ parsed["name_confidence"] < thresh)
                       \/ (f = "category"
                             /\ "category_confidence" \notin DOMAIN parsed)
                       \/ (f = "category"
                             /\ "category_confidence" \in DOMAIN parsed
                             /\ parsed["category_confidence"] < thresh)
                       \/ (f = "price"
                             /\ "price_confidence" \notin DOMAIN parsed)
                       \/ (f = "price"
                             /\ "price_confidence" \in DOMAIN parsed
                             /\ parsed["price_confidence"] < thresh))

\* C14: whenever the price confidence of a candidate is below the threshold
\* (a missing confidence counts as zero), needs_clarification answers
\* ask = True and issues lists exactly the fields below the threshold in the
\* order name, category, price, so price is its last element.
C14_LowPriceIssues ==
  (/\ turn.op = "needs_clarification"
   /\ ConfOf(turn.parsed, "price_confidence") < turn.thresh)
    => /\ turn.result.ask
       /\ turn.result.issues = FieldsBelow(turn.parsed, turn.thresh)
       /\ turn.result.issues[Len(turn.result.issues)] = "price"

C14_Witness ==
  /\ turn.op = "needs_clarification"
  /\ turn.thresh = 70
  /\ "price_confidence" \notin DOMAIN turn.parsed
  /\ "name_confidence" \in DOMAIN turn.parsed
  /\ turn.parsed["name_confidence"] = 69
  /\ "category_confidence" \in DOMAIN turn.parsed
  /\ turn.parsed["category_confidence"] = 70
  /\ turn.result.issues = <<"name", "price">>

\* The tailored prompt of a single field.
TailoredKind(f) ==
  CASE f = "name" -> "ask_name"
    [] f = "category" -> "ask_category"
    [] f = "price" -> "ask_price"

\* C15: question synthesis answers every issues list with one prompt: the
\* yes/no confirmation for the empty list, the tailored prompt of the field
\* for a list of one field (three different prompts), and for a list of two
\* or three fields the combined prompt naming the fields of the list.
C15_QuestionSynthesis ==
  turn.op = "_start_verif_question_issues"
    => /\ turn.result.kind \in QuestionKinds
       /\ Len(turn.issues) = 0
            => turn.result = [kind |-> "confirm", fields |-> << >>]
       /\ Len(turn.issues) = 1
            => turn.result =
                 [kind |-> TailoredKind(turn.issues[1]), fields |-> << >>]
       /\ Len(turn.issues) >= 2
            => turn.result = [kind |-> "combined", fields |-> turn.issues]

C15_Witness ==
  /\ turn.op = "_start_verif_question_issues"
  /\ turn.issues = <<"category">>
  /\ turn.result.kind = "ask_category"

EnumCategories == {Str(c) : c \in ALLOWED_CATEGORIES}

\* C16: the category of a normalized candidate is always one of Food,
\* Entertainment, Travel, Others, whatever the raw category was (a value
\* outside the enum, or a null or missing one, becomes Others).
C16_NormalizedCategoryInEnum ==
  (turn.op = "normalize" /\ ~turn.raised)
    => turn.result.category \in EnumCategories

\* C17: the record a finalize path (handle_text, handle_image,
\* message_handler, add_query_handler) hands to the store has a category
\* that is one of Food, Entertainment, Travel, Others.
C17_StoredCategoryInEnum ==
  turn.op = "finalize" => turn.doc.category \in EnumCategories

\* C18: the record persisted for a candidate carries the income flag the
\* extractor returned for it: true is stored as true, false as false.
C18_IncomeFlagStored ==
  (turn.op = "finalize" /\ turn.raw.isIncome.t = "bool")
    => turn.doc.isIncome = (IF turn.raw.isIncome.b THEN "true" ELSE "false")

\* C19: every record a finalize path hands to the store carries the phone of
\* the authenticated sender (P1), whatever the Users collection holds; none
\* is stored under the phone of another account.
C19_StoredUnderSenderPhone ==
  \A i \in 1..Len(turn.attempts) : turn.attempts[i].doc.phone = Str(P1)

\* The spellings of the yes-class tokens.
YesSpellings ==
  {<<"yes">>, <<"YES">>, <<"Yes">>, <<"y">>, <<"Y">>, <<"yeah">>, <<"Yeah">>,
   <<"YEAH">>, <<"correct">>, <<"Correct">>, <<"CORRECT">>}

\* A reply that handle_text handles while the pending state awaits the
\* verify response.
VerifyAwaitTurn ==
  /\ turn.op = "handle_text"
  /\ turn.text # << >>
  /\ turn.prior.stage = "verify_flow"
  /\ turn.prior.substage \in {"absent", "await_verify_response"}

VerifyDispatched ==
  /\ turn.text # << >>
  /\ turn.prior.stage = "verify_flow"
  /\ \/ turn.op = "handle_text"
     \/ /\ turn.op = "message_handler_text"
        /\ T1 \in authenticated_users
        /\ LinkedPhones(users, T1) # {}

\* The field a reply names, by its spellings; << >> when it names none.
ChoiceOf(text) ==
  CASE text \in {<<"name">>, <<"Name">>, <<"NAME">>} -> <<"name">>
    [] text \in {<<"category">>, <<"Category">>} -> <<"category">>
    [] text \in {<<"price">>, <<"Price">>, <<"PRICE">>} -> <<"price">>
    [] text \in {<<"all">>, <<"All">>} -> <<"all">>
    [] OTHER -> << >>

\* C21: in VerifyChooseField a (trimmed) reply that is name, category, price
\* or all in any letter case moves the pending state to await_correction
\* with that choice recorded; any other reply is answered by the re-prompt
\* and leaves the pending state as it was; neither makes an insert.
C21_VerifyChooseField ==
  (VerifyDispatched /\ turn.prior.substage = "choose_field")
    => /\ turn.attempts = << >>
       /\ Queries = << >>
       /\ IF ChoiceOf(turn.text) # << >>
          THEN pending = [turn.prior EXCEPT
                            !.substage = "await_correction",
                            !.choice = Str(ChoiceOf(turn.text))]
          ELSE /\ pending = turn.prior
               /\ turn.replies = <<Reply("choose_again")>>

C21_Witness ==
  /\ VerifyDispatched
  /\ turn.op = "message_handler_text"
  /\ turn.prior.substage = "choose_field"
  /\ turn.text = <<"PRICE">>
  /\ pending.substage = "await_correction"
  /\ pending.choice = Str(<<"price">>)

\* A correction reply: the pending state awaits the corrected value.
CorrectionTurn == VerifyDispatched /\ turn.prior.substage = "await_correction"

\* The enum value a category reply stands for, by its spellings.
CategoryOf(text) ==
  CASE text \in {<<"food">>, <<"Food">>, <<"FOOD">>} -> <<"Food">>
    [] text \in {<<"travel">>, <<"Travel">>} -> <<"Travel">>
    [] text \in {<<"entertainment">>, <<"Entertainment">>} -> <<"Entertainment">>
    [] OTHER -> <<"Others">>

\* The candidate the structured reply JSON_OBJ describes.
TeaCandidate ==
  [Name |-> Str(<<"Tea">>), name_confidence |-> 90,
   category |-> Str(<<"Food">>), category_confidence |-> 90,
   price |-> Num(15), price_confidence |-> 90]

\* The reply is the text of some JSON value.
IsJsonText(text) ==
  \/ text \in {<<"JSON_OBJ">>, <<"JSON_LIST">>}
  \/ \A i \in 1..Len(text) : text[i] \in Digits

NonNumeric(text) == \E i \in 1..Len(text) : text[i] \notin Digits

\* C23: a non-numeric reply to the correction target price is answered by a
\* re-prompt in the same sub-stage: the pending state stays at
\* await_correction and the price of its candidate is unchanged.
C23_PriceCorrectionValidated ==
  (/\ CorrectionTurn
   /\ turn.prior.choice = Str(<<"price">>)
   /\ NonNumeric(turn.text))
    => /\ pending.stage = "verify_flow"
       /\ pending.substage = "await_correction"
       /\ pending.parsed.price = turn.prior.parsed.price

\* A model output that json.loads rejects, or that is empty.
Unparseable(o) == o.kind \in {"error", "garbage", "empty"}

\* A confidence of a raw map in percent (null counts as zero).
ConfPct(v) == IF v.t = "num" THEN v.n ELSE 0

\* A key-value map whose three confidences are numbers or null.
PlainMap(o) ==
  /\ o.kind = "json"
  /\ \A k \in ConfKeys : o.map[k].t \in {"num", "none"}

AllBelow(o) ==
  /\ PlainMap(o)
  /\ \A k \in ConfKeys : ConfPct(o.map[k]) < CONF_THRESH

\* C24: one call of categorization_with_confidence invokes the model once or
\* twice; when it returns, the second (force-guess) invocation was made
\* exactly when the first output is unparseable or empty or has its three
\* confidences all below the threshold; a second output that is a map is
\* returned normalized whatever its confidences, and if the second output
\* is unparseable too the all-null candidate with confidences 0 is returned.
C24_TwoAttempts ==
  turn.op = "categorization_with_confidence"
    => /\ turn.result.invocations \in {1, 2}
       /\ ~turn.result.raised
            => /\ turn.result.invocations = 2
                    <=> (Unparseable(turn.o1) \/ AllBelow(turn.o1))
               /\ (turn.result.invocations = 2 /\ PlainMap(turn.o2))
                    => /\ turn.result.parsed.Name = turn.o2.map.Name
                       /\ turn.result.parsed.price = turn.o2.map.price
                       /\ \A k \in ConfKeys :
                            turn.result.parsed[k] = ConfPct(turn.o2.map[k])
               /\ (turn.result.invocations = 2 /\ Unparseable(turn.o2))
                    => turn.result.parsed =
                         [Name |-> None, name_confidence |-> 0,
                          category |-> None, category_confidence |-> 0,
                          price |-> None, price_confidence |-> 0]

C24_Witness ==
  /\ turn.op = "categorization_with_confidence"
  /\ turn.o1 = GarbageOut
  /\ turn.o2 = Json(AllLow)
  /\ turn.result.invocations = 2
  /\ turn.result.parsed.price_confidence = 30

\* C25: the Field Normalizer returns an entry for every raw output; it never
\* raises, also on a confidence that is no number.
C25_NormalizerNeverRaises ==
  turn.op = "normalize" => ~turn.raised

\* C26: price coercion drops the currency markers and the thousands
\* separator before the numeric parse, so that 1,200 rupees, 20rs and Rs 20
\* give 1200, 20 and 20; a string that is still no number gives null; and
\* the coercion of message_handler (_normalize_parsed) agrees with the one
\* of _store_query_for_user on every price string.
C26_PriceCoercion ==
  turn.op = "price"
    => /\ turn.raw = <<"₹", "1", ",", "2", "0", "0">>
            => (turn.main = Num(1200) /\ turn.store = Num(1200))
       /\ turn.raw = <<"2", "0", "rs">>
            => (turn.main = Num(20) /\ turn.store = Num(20))
       /\ turn.raw = <<"Rs", SP, "2", "0">>
            => (turn.main = Num(20) /\ turn.store = Num(20))
       /\ turn.raw \in {<<"abc">>, <<"2", "0", SP, "abc">>}
            => (turn.main = None /\ turn.store = None)
       /\ turn.main = turn.store

\* C27: a raw map that carries the name under Name/name/item/title, the
\* category under category/type and the price under price/cost/amount, in
\* any letter case, gives the entry of the map with the canonical keys.
C27_FieldAliasing ==
  turn.op = "alias" => turn.entry = turn.canonical

C29_RepliesInOrder ==
  (turn.op = "webhook" /\ turn.prior.stage = "await_clarify")
    => /\ turn.prior = turn.current
       /\ pending.stage = "await_clarify"
            => pending.user_text = JoinSP(hist)

\* C30: no extractor call of a handler runs on the event loop: while an
\* extraction is in flight the loop is free to dispatch and handle a message
\* of another conversation.
C30_ExtractionOffLoop ==
  tasks # << >> => ~LoopBlocked

\* C31: when the session of a conversation is destroyed, by logout or by
\* expiry, no pending state of that conversation remains.
C31_PendingDiesWithSession ==
  turn.op \in {"logout", "session_expired"} => ~HasPending(pending)

\* C32: after any sequence or interleaving of create_user calls for one
\* valid 10-digit phone, Users holds exactly one document with that number
\* and its password_hash is the one of the first call; a phone that is not
\* exactly 10 digits raises ValueError and leaves Users as it was.
C32_OneUserPerPhone ==
  /\ (tasks = << >> /\ FirstDone # None)
       => /\ Cardinality(Matching(UsersDocs, TenDigits)) = 1
          /\ \A i \in Matching(UsersDocs, TenDigits) :
               Str(UsersDocs[i].password_hash) = FirstDone
  /\ turn.op = "create_user"
       => /\ turn.raised <=> turn.phone # TenDigits
          /\ turn.raised => UsersDocs = turn.before

\* C33: in every state reached from no pending state by handle_text and
\* handle_image calls, a pending state that is present has stage
\* await_clarify; stage verify_flow is stored by no handler.
C33_OnlyAwaitClarify ==
  /\ HasPending(pending) => pending.stage = "await_clarify"
  /\ HasPending(turn.prior) => turn.prior.stage = "await_clarify"

\* A clarification reply was handled by handle_text and the pending state
\* it updated is still there.
C33_Witness ==
  /\ turn.op = "handle_text"
  /\ HasPending(turn.prior)
  /\ HasPending(pending)
  /\ pending # turn.prior

\* C34: every pending state stored has a non-empty issues list that ends
\* with price, and the prompts of the empty list, of [name] and of
\* [category] are never sent.
C34_IssuesEndWithPrice ==
  /\ HasPending(pending)
       => /\ pending.issues # << >>
          /\ pending.issues[Len(pending.issues)] = "price"
  /\ \A i \in DOMAIN turn.replies :
       turn.replies[i].kind \notin {"confirm", "ask_name", "ask_category"}

\* A pending state was stored for an extraction whose price alone is below
\* the threshold, and the price prompt was sent.
C34_Witness ==
  /\ HasPending(pending)
  /\ pending # turn.prior
  /\ pending.issues = <<"price">>
  /\ \E i \in DOMAIN turn.replies : turn.replies[i].kind = "ask_price"

\* C35: in ADD_QUERY add_query_handler stores every non-empty text of an
\* authed user with exactly one create_query call, whatever the extraction
\* says, asks no clarification, and leaves the pending state as it was.
C35_AddQueryAlwaysStores ==
  turn.op = "add_query_handler"
    => /\ pending = turn.prior
       /\ \A i \in DOMAIN turn.replies :
            turn.replies[i].kind \notin QuestionKinds
       /\ (/\ turn.text # << >>
           /\ \A i \in DOMAIN turn.replies :
                turn.replies[i].kind # "must_authenticate")
            => Len(turn.attempts) = 1

C37_HashChangedOnlyByReset ==
  [][(/\ users[P1].present
      /\ users'[P1].present
      /\ users'[P1].password_hash # users[P1].password_hash)
       => turn'.op = "receive_reset_new_password"]_vars

\* A password was sent in ENTER_PASSWORD_CREATE for a number whose account
\* exists: Telegram is linked, the user authed, the hash the old one.
C37_Witness ==
  /\ turn.op = "receive_password_create"
  /\ turn.replies = <<Reply("already_existed")>>
  /\ Authed
  /\ users[P1].telegram_id = T1
  /\ users[P1].password_hash = "h0"

\* C38: no transition of the verify protocol calls the extractor; the store
\* is written only by the yes transition of await_verify_response, never in
\* choose_field or await_correction; and the image and the accumulated text
\* of the pending state are unchanged by every verify transition.
C38_VerifyFrame ==
  VerifyDispatched
    => /\ turn.calls = << >>
       /\ turn.attempts # << >>
            => /\ turn.prior.substage \in {"absent", "await_verify_response"}
               /\ turn.text \in YesSpellings
       /\ turn.prior.substage \in {"choose_field", "await_correction"}
            => Queries = << >>
       /\ HasPending(pending)
            => /\ pending.image_b64 = turn.prior.image_b64
               /\ pending.user_text = turn.prior.user_text

\* A price correction was taken: the candidate changed, the image and the
\* text did not, and nothing was stored.
C38_Witness ==
  /\ VerifyDispatched
  /\ turn.prior.substage = "await_correction"
  /\ turn.prior.choice = Str(<<"price">>)
  /\ pending.substage = "await_verify_response"
  /\ pending.parsed # turn.prior.parsed
  /\ pending.image_b64 = Str(<<"IMG_A">>)
  /\ Queries = << >>

(* ---------------------- session store (bot/sessions.py) --------------- *)
\* The clock counts hours; both reads of time.time() in create_session fall
\* in the same hour.
SESSION_TTL_SECONDS == 24
MaxClock == 26
TelegramIds == {1, 2}
StateKeys == {"action"}
StateValues == {"create"}
\* Steps of the clock: half the lifetime, and an hour more than that.
Ticks == {12, 13}

\* get_session's test of a stored session, never true.
Expired_never(s, now) == FALSE

\* time.time() > s["expires_at"]
Expired(s, now) == now > s.expires_at

Without(store, id) == [j \in DOMAIN store \ {id} |-> store[j]]

With(store, id, s) ==
  [j \in DOMAIN store \cup {id} |-> IF j = id THEN s ELSE store[j]]

\* create_session at time now: the entry of id is replaced.
create_session_at(store, id, phone, authed, now) ==
  With(store, id,
       [phone |-> phone, authed |-> authed, created_at |-> now,
        expires_at |-> now + SESSION_TTL_SECONDS, state |-> << >>])

\* get_session: the value returned and the store it leaves.
get_session(store, id, now) ==
  IF id \notin DOMAIN store THEN [ret |-> None, store |-> store]
  ELSE IF Expired(store[id], now)
    THEN [ret |-> None, store |-> Without(store, id)]
  ELSE [ret |-> store[id], store |-> store]

\* set_session_state: s["state"][key] = value on what get_session returned.
set_session_state(store, id, key, value, now) ==
  LET got == get_session(store, id, now)
  IN IF got.ret = None THEN got
     ELSE LET s == [got.ret EXCEPT !.state = With(got.ret.state, key, value)]
          IN [ret |-> s, store |-> With(got.store, id, s)]

\* destroy_session: _sessions.pop(id, None)
destroy_session(store, id) ==
  [ret |-> IF id \in DOMAIN store THEN store[id] ELSE None,
   store |-> IF id \in DOMAIN store THEN Without(store, id) ELSE store]

InitSessions ==
  /\ pending = NoPending
  /\ Queries = << >>
  /\ users \in UnlinkedUsers
  /\ authenticated_users = {}
  /\ turn = NoTurn
  /\ hist = << >>
  /\ img0 = None
  /\ conv = "END"
  /\ session = NoSession
  /\ intent = "none"
  /\ turns = 0
  /\ tasks = << >>
  /\ UsersDocs = << >>
  /\ number_unique = TRUE
  /\ _sessions = << >>
  /\ clock = 0

SessionCall(op, id, out) ==
  /\ _sessions' = out.store
  /\ turn' = [op |-> op, id |-> id, now |-> clock, before |-> _sessions,
              ret |-> out.ret]
  /\ UNCHANGED <<pending, Queries, users, authenticated_users, hist, img0,
                 conv, session, intent, turns, tasks, dbVars, clock>>

Tick ==
  /\ \E d \in Ticks :
       /\ clock + d <= MaxClock
       /\ clock' = clock + d
  /\ UNCHANGED <<pending, Queries, users, authenticated_users, turn, hist,
                 img0, conv, session, intent, turns, tasks, dbVars,
                 _sessions>>

CreateSession ==
  \E id \in TelegramIds, authed \in BOOLEAN :
     LET store == create_session_at(_sessions, id, P1, authed, clock)
     IN SessionCall("create_session", id,
                    [ret |-> store[id], store |-> store])

GetSession ==
  \E id \in TelegramIds :
     SessionCall("get_session", id, get_session(_sessions, id, clock))

SetSessionState ==
  \E id \in TelegramIds, key \in StateKeys, value \in StateValues :
     SessionCall("set_session_state", id,
                 set_session_state(_sessions, id, key, value, clock))

DestroySession ==
  \E id \in TelegramIds :
     SessionCall("destroy_session", id, destroy_session(_sessions, id))

NextSessions ==
  \/ Tick
  \/ CreateSession
  \/ GetSession
  \/ SetSessionState
  \/ DestroySession

SpecSessions == InitSessions /\ [][NextSessions]_vars

\* The call was on a session that is missing or past its expires_at.
DeadBefore ==
  \/ turn.id \notin DOMAIN turn.before
  \/ turn.now > turn.before[turn.id].expires_at

\* C39: get_session returns no session whose expires_at is in the past and
\* removes it on that read; expires_at is creation time + 24 hours and no
\* get_session or set_session_state changes it; set_session_state on a
\* missing or expired session returns None and leaves the store as it was.
C39_SessionExpiry ==
  /\ \A j \in DOMAIN _sessions :
       _sessions[j].expires_at = _sessions[j].created_at + 24
  /\ turn.op \in {"get_session", "set_session_state"}
       => /\ turn.ret # None => turn.ret.expires_at >= turn.now
          /\ DeadBefore => turn.ret = None /\ turn.id \notin DOMAIN _sessions
          /\ \A j \in DOMAIN _sessions :
               /\ j \in DOMAIN turn.before
               /\ _sessions[j].expires_at = turn.before[j].expires_at
          /\ turn.op = "set_session_state" /\ DeadBefore
               => turn.ret = None /\ _sessions = turn.before

\* As C39, and set_session_state on a missing or expired session returns
\* None and writes no state: the store is as it was but for the expired
\* session, which the read removed.
C39_SessionExpiry_Amended ==
  /\ \A j \in DOMAIN _sessions :
       _sessions[j].expires_at = _sessions[j].created_at + 24
  /\ turn.op \in {"get_session", "set_session_state"}
       => /\ turn.ret # None => turn.ret.expires_at >= turn.now
          /\ DeadBefore => turn.ret = None /\ turn.id \notin DOMAIN _sessions
          /\ \A j \in DOMAIN _sessions :
               /\ j \in DOMAIN turn.before
               /\ _sessions[j].expires_at = turn.before[j].expires_at
          /\ turn.op = "set_session_state" /\ DeadBefore
               => /\ turn.ret = None
                  /\ _sessions = Without(turn.before, turn.id)

\* set_session_state was called on an expired session while another
\* session was live: the expired one is gone, the live one is untouched.
C39_Witness ==
  /\ turn.op = "set_session_state"
  /\ turn.id \in DOMAIN turn.before
  /\ turn.now > turn.before[turn.id].expires_at
  /\ turn.ret = None
  /\ _sessions # << >>
  /\ _sessions = Without(turn.before, turn.id)

====
